---------------------------- MODULE Spec2Model ----------------------------
(***************************************************************************)
(* Model of the diff line mapper and the suggestion refiner of the GitLab  *)
(* merge-request review bot (gitlab_mr_review/ai_adapters).                *)
(*                                                                         *)
(* Text is a sequence of one-character strings; "\n" is the line break.    *)
(* A Python dict is a function; an absent key is a key outside DOMAIN.     *)
(*                                                                         *)
(* The specifications of the module:                                       *)
(*   Spec            ClaudeAdapter._refine_code_fixes, one issue per step  *)
(*   SpecMap         ClaudeAdapter._build_new_file_maps on one file, one   *)
(*                   diff line per step                                    *)
(*   SpecLineId      generate_line_code and the client's line code         *)
(*   SpecValidators  the structural validators called on their own         *)
(*   SpecParse       AIAdapter.parse_review_response, one call per run     *)
(*   SpecNormalize   the normalisation rules of parse_review_response      *)
(*   SpecPost        GitLabClient.post_inline_comment, one request a step  *)
(*   SpecMain        main, from the review result to the status returned   *)
(*   SpecResolve     resolve_model, one call per run                       *)
(***************************************************************************)
EXTENDS Integers, Sequences, FiniteSets, TLC

VARIABLES
    \* ---- _refine_code_fixes
    changes,                \* the `changes` argument
    issues,                 \* the issues of the `issues` argument handled so far
    refined_issues,         \* the result list
    conceptual_conversions, \* the aggregate downgrade counter
    file_line_maps,         \* result of _build_new_file_maps(changes)
    pc,                     \* "start" | "loop" | "done" | "idle"
    \* ---- _build_new_file_maps, the loop over one file's diff
    diff,                   \* the diff lines read so far
    current_new_line,
    current_old_line,
    removed_old_lines,
    line_map,
    emitted,                \* history: the records written, in parse order
    mpc,                    \* "parse" | "done" | "idle"
    \* ---- generate_line_code and GitLabClient._generate_line_code
    triples,                \* the (path, old_line, new_line) arguments of the calls
    line_codes,             \* what each call returned, mapper and client
    \* ---- the structural validators called on their own
    given_original,         \* the `original` argument
    given_replacement,      \* the `replacement` argument
    verdict,                \* <<>> before the call, then <<what was returned>>
    \* ---- AIAdapter.parse_review_response
    given_response,         \* the `response_text` argument
    category_order,         \* the order in which allowed_categories is iterated
    parsed,                 \* <<>> before the call, then <<how the call ended>>
    \* ---- normalize_severity, normalize_category and the suggestion kind rule
    raw_value,              \* the raw value given to the three rules
    norm_once,              \* <<>>, then <<the three values of the first pass>>
    norm_again,             \* <<>>, then <<the three values of a pass over norm_once>>
    \* ---- GitLabClient.post_inline_comment
    post_args,              \* <<>>, or <<the arguments and mr_data of the call>>
    sent,                   \* the POST requests sent: position and outcome
    post_result,            \* <<>> before the call ends, then <<how it ended>>
    ppc,                    \* "first" | "failed" | "ended" | "idle"
    \* ---- main, the loop that posts the inline comments
    main_issues,            \* review_data['issues']
    main_log,               \* history: one record per issue the loop has taken
    posted_count,
    failed_count,
    status_code,            \* 0 while main runs, then the statusCode returned
    \* ---- resolve_model
    given_provider,         \* the `provider` argument
    given_model,            \* the `requested_model` argument: <<>> for None, or <<the name>>
    resolved                \* <<>> before the call, then <<how the call ended>>

refine_vars == <<changes, issues, refined_issues, conceptual_conversions,
                 file_line_maps, pc>>
map_vars == <<diff, current_new_line, current_old_line, removed_old_lines,
              line_map, emitted, mpc>>
id_vars == <<triples, line_codes>>
\* the variables of the functions checked on their own
validator_vars == <<given_original, given_replacement, verdict>>
parse_vars == <<given_response, category_order, parsed>>
norm_vars == <<raw_value, norm_once, norm_again>>
post_vars == <<post_args, sent, post_result, ppc>>
main_vars == <<main_issues, main_log, posted_count, failed_count, status_code>>
resolve_vars == <<given_provider, given_model, resolved>>
\* the variables of the remaining functions, each called on its own
other_vars == <<norm_vars, post_vars, main_vars, resolve_vars>>
pure_vars == <<id_vars, validator_vars, parse_vars, other_vars>>
vars == <<refine_vars, map_vars, pure_vars>>

----------------------------------------------------------------------------
(* Bounds of the model *)

\* longest issue list handed to the refiner
MaxIssues == 2
\* longest diff (in lines) read by the line mapper in SpecMap
MaxDiffLines == 5
\* number of line code computations compared in SpecLineId
MaxCalls == 2

\* the longest list of issues main is given
MaxReviewIssues == 2

----------------------------------------------------------------------------
(* Text *)

\* Python None for current_new_line / current_old_line, and an absent end_line
None == 0 - 1

Max(S) == CHOOSE m \in S : \A n \in S : n <= m
Min(S) == CHOOSE m \in S : \A n \in S : m <= n

\* str.count(ch) for a single character
Count(text, ch) == Cardinality({i \in 1..Len(text) : text[i] = ch})

\* text.startswith(prefix)
StartsWith(text, prefix) ==
    /\ Len(prefix) <= Len(text)
    /\ SubSeq(text, 1, Len(prefix)) = prefix

\* text.split('\n'): always at least one line
RECURSIVE Split(_)
Split(text) ==
    LET breaks == {i \in 1..Len(text) : text[i] = "\n"}
    IN  IF breaks = {} THEN <<text>>
        ELSE LET i == Min(breaks)
             IN  <<SubSeq(text, 1, i - 1)>> \o Split(SubSeq(text, i + 1, Len(text)))

\* '\n'.join(lines)
RECURSIVE Join(_)
Join(lines) ==
    IF lines = <<>> THEN <<>>
    ELSE IF Len(lines) = 1 THEN lines[1]
    ELSE lines[1] \o <<"\n">> \o Join(Tail(lines))

\* the characters str.strip() / str.lstrip() remove that can occur inside a line
Whitespace == {" ", "\t"}

\* number of leading characters of `line` that are in `set`
LeadingRun(line, set) ==
    Max({k \in 0..Len(line) : \A j \in 1..k : line[j] \in set})

\* number of trailing characters of `line` that are in `set`
TrailingRun(line, set) ==
    Max({k \in 0..Len(line) : \A j \in (Len(line) - k + 1)..Len(line) : line[j] \in set})

\* line.lstrip()
LStrip(line) == SubSeq(line, LeadingRun(line, Whitespace) + 1, Len(line))

\* line.strip()
Strip(line) ==
    LET l == LStrip(line)
    IN  SubSeq(l, 1, Len(l) - TrailingRun(l, Whitespace))

\* ClaudeAdapter._leading_whitespace
_leading_whitespace(line) ==
    IF line = <<>> THEN <<>>
    ELSE LET stripped == SubSeq(line, LeadingRun(line, {" ", "\t"}) + 1, Len(line))
         IN  SubSeq(line, 1, Len(line) - Len(stripped))

----------------------------------------------------------------------------
(* _build_new_file_maps *)

Digits == {"0", "1", "2", "3", "4", "5", "6", "7", "8", "9"}

DigitValue(ch) ==
    CASE ch = "0" -> 0 [] ch = "1" -> 1 [] ch = "2" -> 2 [] ch = "3" -> 3
      [] ch = "4" -> 4 [] ch = "5" -> 5 [] ch = "6" -> 6 [] ch = "7" -> 7
      [] ch = "8" -> 8 [] ch = "9" -> 9

\* int() of a run of decimal digits
RECURSIVE ToInt(_)
ToInt(digits) ==
    IF digits = <<>> THEN 0
    ELSE 10 * ToInt(SubSeq(digits, 1, Len(digits) - 1)) + DigitValue(digits[Len(digits)])

\* length of the run of digits of `line` that starts at position i (\d* , greedy)
DigitRun(line, i) ==
    Max({k \in 0..(Len(line) - i + 1) : \A j \in i..(i + k - 1) : line[j] \in Digits})

\* whether `lit` stands in `line` at position i
LitAt(line, i, lit) ==
    /\ i + Len(lit) - 1 <= Len(line)
    /\ SubSeq(line, i, i + Len(lit) - 1) = lit

\* 1 when an optional ',' stands at position i (,?), else 0
CommaAt(line, i) == IF i <= Len(line) /\ line[i] = "," THEN 1 ELSE 0

\* re.match(r'@@ -(?P<old>\d+),?\d* \+(?P<new>\d+),?\d* @@', line)
HeaderMatch(line) ==
    LET p1 == 5
        d1 == DigitRun(line, p1)
        p2 == p1 + d1
        p3 == p2 + CommaAt(line, p2)
        p4 == p3 + DigitRun(line, p3)
        p5 == p4 + 2
        d3 == DigitRun(line, p5)
        p6 == p5 + d3
        p7 == p6 + CommaAt(line, p6)
        p8 == p7 + DigitRun(line, p7)
        ok == /\ LitAt(line, 1, <<"@", "@", " ", "-">>)
              /\ d1 >= 1
              /\ LitAt(line, p4, <<" ", "+">>)
              /\ d3 >= 1
              /\ LitAt(line, p8, <<" ", "@", "@">>)
    IN  IF ok
        THEN [matched |-> TRUE,
              old |-> ToInt(SubSeq(line, p1, p2 - 1)),
              new |-> ToInt(SubSeq(line, p5, p6 - 1))]
        ELSE [matched |-> FALSE, old |-> 0, new |-> 0]

\* sha1(base).hexdigest(): a digest is named by the text it digests
Sha1(base) == <<"sha1", base>>

\* the characters of the file paths of the model
PathText(path) ==
    CASE path = "a.py" -> <<"a", ".", "p", "y">>
      [] path = "b.py" -> <<"b", ".", "p", "y">>
      [] path = "a_1" -> <<"a", "_", "1">>
      [] path = "a" -> <<"a">>
      [] OTHER -> <<path>>

\* str(n) of a non-negative int
RECURSIVE DecimalDigits(_)
DecimalDigits(n) ==
    IF n < 10 THEN <<CHOOSE ch \in Digits : DigitValue(ch) = n>>
    ELSE Append(DecimalDigits(n \div 10), CHOOSE ch \in Digits : DigitValue(ch) = n % 10)

\* str(n) of an int, as an f-string renders it
IntText(n) == IF n < 0 THEN <<"-">> \o DecimalDigits(0 - n) ELSE DecimalDigits(n)

\* base = f"{path}_{old_line}_{new_line}"
LineCodeBase(path, old_line, new_line) ==
    PathText(path) \o <<"_">> \o IntText(old_line) \o <<"_">> \o IntText(new_line)

\* faulty variant of generate_line_code: the old line is left out of the text
generate_line_code_without_old(path, old_line, new_line) ==
    <<Sha1(PathText(path) \o <<"_">> \o IntText(new_line))>>
        \o <<"_">> \o IntText(new_line)

\* generate_line_code: f"{digest}_{old_line}_{new_line}" with
\* digest = sha1(base).hexdigest(); the digest is one element of the text
generate_line_code(path, old_line, new_line) ==
    <<Sha1(LineCodeBase(path, old_line, new_line))>>
        \o <<"_">> \o IntText(old_line) \o <<"_">> \o IntText(new_line)

\* faulty variant of _generate_line_code: the two line numbers change places
_generate_line_code_new_first(file_path, new_line, old_line) ==
    LET old == IF old_line = None THEN 0 ELSE old_line
    IN  <<Sha1(PathText(file_path) \o <<"_">> \o IntText(new_line)
                  \o <<"_">> \o IntText(old))>>
            \o <<"_">> \o IntText(new_line) \o <<"_">> \o IntText(old)

\* GitLabClient._generate_line_code(file_path, new_line, old_line=None)
_generate_line_code(file_path, new_line, old_line) ==
    LET old == IF old_line = None THEN 0 ELSE old_line
        base == PathText(file_path) \o <<"_">> \o IntText(old)
                    \o <<"_">> \o IntText(new_line)
    IN  <<Sha1(base)>> \o <<"_">> \o IntText(old) \o <<"_">> \o IntText(new_line)

\* an empty dict
EmptyMap == [n \in {} |-> 0]

\* d[key] = value
DictSet(d, key, value) ==
    [k \in DOMAIN d \cup {key} |-> IF k = key THEN value ELSE d[k]]

\* the loop state of _build_new_file_maps before the first line of a diff
MapStart ==
    [current_new_line |-> None,
     current_old_line |-> None,
     removed_old_lines |-> <<>>,
     line_map |-> EmptyMap]

\* a hunk header: set both counters, clear the pending removals
OnHeader(st, h) ==
    [st EXCEPT !.current_old_line = h.old,
               !.current_new_line = h.new,
               !.removed_old_lines = <<>>]

\* faulty variant of OnAdded: pairs with the newest pending removal (pop() for pop(0))
OnAddedLifo(st, path, line) ==
    LET content == Tail(line)
        n == Len(st.removed_old_lines)
        old_line_value == IF n > 0 THEN st.removed_old_lines[n] ELSE 0
    IN  [st EXCEPT
           !.removed_old_lines = IF n > 0 THEN SubSeq(st.removed_old_lines, 1, n - 1)
                                 ELSE <<>>,
           !.line_map = DictSet(st.line_map, st.current_new_line,
                [content |-> content,
                 old_line |-> old_line_value,
                 line_code |-> generate_line_code(path, old_line_value,
                                                  st.current_new_line)]),
           !.current_new_line = st.current_new_line + 1]

\* a '+' line: pair with the oldest pending removal, or 0
OnAdded(st, path, line) ==
    LET content == Tail(line)
        old_line_value == IF st.removed_old_lines # <<>>
                          THEN Head(st.removed_old_lines)
                          ELSE 0
    IN  [st EXCEPT
           !.removed_old_lines = IF st.removed_old_lines # <<>>
                                 THEN Tail(st.removed_old_lines)
                                 ELSE <<>>,
           !.line_map = DictSet(st.line_map, st.current_new_line,
                [content |-> content,
                 old_line |-> old_line_value,
                 line_code |-> generate_line_code(path, old_line_value,
                                                  st.current_new_line)]),
           !.current_new_line = st.current_new_line + 1]

\* faulty variant of OnRemoved: the old line number is pushed at the front
OnRemovedPushFront(st) ==
    [st EXCEPT !.removed_old_lines = <<st.current_old_line>> \o st.removed_old_lines,
               !.current_old_line = st.current_old_line + 1]

\* faulty variant of OnRemoved: a removed line also advances the new line number
OnRemovedCountsNewLine(st) ==
    [st EXCEPT !.removed_old_lines = Append(st.removed_old_lines, st.current_old_line),
               !.current_old_line = st.current_old_line + 1,
               !.current_new_line = st.current_new_line + 1]

\* a '-' line: no record, remember the old line number
OnRemoved(st) ==
    [st EXCEPT !.removed_old_lines = Append(st.removed_old_lines, st.current_old_line),
               !.current_old_line = st.current_old_line + 1]

\* a ' ' line: a record with the current old line, clear the pending removals
OnContext(st, path, line) ==
    LET content == Tail(line)
    IN  [st EXCEPT
           !.line_map = DictSet(st.line_map, st.current_new_line,
                [content |-> content,
                 old_line |-> st.current_old_line,
                 line_code |-> generate_line_code(path, st.current_old_line,
                                                  st.current_new_line)]),
           !.current_new_line = st.current_new_line + 1,
           !.current_old_line = st.current_old_line + 1,
           !.removed_old_lines = <<>>]

\* which branch of the loop body a diff line takes
LineKind(st, line) ==
    IF HeaderMatch(line).matched THEN "header"
    ELSE IF st.current_new_line = None \/ st.current_old_line = None THEN "skip"
    ELSE IF StartsWith(line, <<"+">>) THEN "added"
    ELSE IF StartsWith(line, <<"-">>) THEN "removed"
    ELSE IF StartsWith(line, <<" ">>) THEN "context"
    ELSE "meta"

\* one pass of the loop `for line in diff.split('\n')`
ParseLine(st, path, line) ==
    LET kind == LineKind(st, line)
    IN  CASE kind = "header"  -> OnHeader(st, HeaderMatch(line))
          [] kind = "added"   -> OnAdded(st, path, line)
          [] kind = "removed" -> OnRemoved(st)
          [] kind = "context" -> OnContext(st, path, line)
          [] OTHER            -> st

\* the whole loop over the lines of one diff
RECURSIVE ParseLines(_, _, _)
ParseLines(st, path, lines) ==
    IF lines = <<>> THEN st
    ELSE ParseLines(ParseLine(st, path, Head(lines)), path, Tail(lines))

\* change.get('new_path') or change.get('old_path'); "" is an absent or empty path
ChangePath(change) ==
    IF change.new_path # "" THEN change.new_path ELSE change.old_path

\* _build_new_file_maps(changes): later changes of the same path replace earlier
RECURSIVE _build_new_file_maps(_)
_build_new_file_maps(chs) ==
    IF chs = <<>> THEN EmptyMap
    ELSE LET before == _build_new_file_maps(SubSeq(chs, 1, Len(chs) - 1))
             change == chs[Len(chs)]
             file_path == ChangePath(change)
             lm == ParseLines(MapStart, file_path, Split(change.diff)).line_map
         IN  IF file_path = "" \/ change.diff = <<>> \/ DOMAIN lm = {}
             THEN before
             ELSE DictSet(before, file_path, lm)

----------------------------------------------------------------------------
(* The structural validators *)

\* ClaudeAdapter._count_brackets, and count_brackets of _is_line_count_change_valid
_count_brackets(text) ==
    [curly  |-> Count(text, "{") - Count(text, "}"),
     square |-> Count(text, "[") - Count(text, "]"),
     paren  |-> Count(text, "(") - Count(text, ")")]

BracketTypes == <<"curly", "square", "paren">>

\* the index of the first entry of BracketTypes that is in the set bad, or 0
FirstBad(bad) ==
    LET hits == {i \in 1..Len(BracketTypes) : BracketTypes[i] \in bad}
    IN  IF hits = {} THEN 0 ELSE Min(hits)

\* ClaudeAdapter._validate_bracket_balance
_validate_bracket_balance(original, replacement) ==
    LET orig_brackets == _count_brackets(original)
        repl_brackets == _count_brackets(replacement)
        bad == {bracket_type \in DOMAIN orig_brackets :
                   orig_brackets[bracket_type] # repl_brackets[bracket_type]}
        i == FirstBad(bad)
    IN  IF i # 0
        THEN [ok |-> FALSE, msg |-> <<BracketTypes[i], "brackets not balanced">>]
        ELSE [ok |-> TRUE, msg |-> <<>>]

OpenCount(text) ==
    [curly |-> Count(text, "{"), square |-> Count(text, "["), paren |-> Count(text, "(")]

CloseCount(text) ==
    [curly |-> Count(text, "}"), square |-> Count(text, "]"), paren |-> Count(text, ")")]

\* a variant of RemovesClosing that does not look at the opening brackets
RemovesClosingAlone(original, replacement, btype) ==
    CloseCount(replacement)[btype] < CloseCount(original)[btype]

\* faulty variant of RemovesClosing: the opening brackets must have grown
RemovesClosingStrict(original, replacement, btype) ==
    /\ CloseCount(replacement)[btype] < CloseCount(original)[btype]
    /\ OpenCount(replacement)[btype] > OpenCount(original)[btype]

\* the replacement has fewer closing and not fewer opening brackets of this type
RemovesClosing(original, replacement, btype) ==
    /\ CloseCount(replacement)[btype] < CloseCount(original)[btype]
    /\ OpenCount(replacement)[btype] >= OpenCount(original)[btype]

\* the replacement has fewer opening and not fewer closing brackets of this type
RemovesOpening(original, replacement, btype) ==
    /\ OpenCount(replacement)[btype] < OpenCount(original)[btype]
    /\ CloseCount(replacement)[btype] >= CloseCount(original)[btype]

bracket_names == [curly |-> <<"{", "}">>, square |-> <<"[", "]">>, paren |-> <<"(", ")">>]

\* AIAdapter._detect_bracket_side_mismatch
_detect_bracket_side_mismatch(original, replacement) ==
    LET bad == {b \in DOMAIN bracket_names :
                   \/ RemovesClosing(original, replacement, b)
                   \/ RemovesOpening(original, replacement, b)}
        i == FirstBad(bad)
        btype == BracketTypes[i]
    IN  IF i = 0 THEN [has_mismatch |-> FALSE, msg |-> <<>>]
        ELSE IF RemovesClosing(original, replacement, btype)
        THEN [has_mismatch |-> TRUE,
              msg |-> <<"Removes",
                        CloseCount(original)[btype] - CloseCount(replacement)[btype],
                        "closing", bracket_names[btype][2],
                        "but keeps opening", bracket_names[btype][1]>>]
        ELSE [has_mismatch |-> TRUE,
              msg |-> <<"Removes",
                        OpenCount(original)[btype] - OpenCount(replacement)[btype],
                        "opening", bracket_names[btype][1],
                        "but keeps closing", bracket_names[btype][2]>>]

orphan_starts ==
    << <<")">>, <<"}">>, <<"]">>, <<";">>, <<",">>, <<":">>,
       <<"e", "l", "s", "e">>,
       <<"c", "a", "t", "c", "h">>,
       <<"f", "i", "n", "a", "l", "l", "y">> >>

\* faulty variant of _check_statement_boundaries: only the one-character orphans are checked
_check_single_char_boundaries(original_lines, start_line, end_line) ==
    IF original_lines = <<>> THEN [ok |-> TRUE, msg |-> <<>>]
    ELSE LET first_line == Strip(original_lines[1])
             hits == {i \in 1..6 : StartsWith(first_line, orphan_starts[i])}
         IN  IF hits # {}
             THEN [ok |-> FALSE, msg |-> <<start_line, "starts with", orphan_starts[Min(hits)]>>]
             ELSE [ok |-> TRUE, msg |-> <<>>]

\* AIAdapter._check_statement_boundaries
_check_statement_boundaries(original_lines, start_line, end_line) ==
    IF original_lines = <<>> THEN [ok |-> TRUE, msg |-> <<>>]
    ELSE LET first_line == Strip(original_lines[1])
             hits == {i \in 1..Len(orphan_starts) : StartsWith(first_line, orphan_starts[i])}
         IN  IF hits # {}
             THEN [ok |-> FALSE, msg |-> <<start_line, "starts with", orphan_starts[Min(hits)]>>]
             ELSE IF StartsWith(first_line, <<"?", ".">>)
             THEN [ok |-> FALSE, msg |-> <<start_line, "method chain continuation">>]
             ELSE [ok |-> TRUE, msg |-> <<>>]

\* faulty variant of get_indent: the leading whitespace of the first line,
\* blank or not
get_indent_of_first_line(lines) ==
    IF lines = <<>> THEN <<>>
    ELSE SubSeq(lines[1], 1, Len(lines[1]) - Len(LStrip(lines[1])))

\* get_indent: the leading whitespace of the first line that is not blank
get_indent(lines) ==
    LET full == {i \in 1..Len(lines) : Strip(lines[i]) # <<>>}
    IN  IF full = {} THEN <<>>
        ELSE LET line == lines[Min(full)]
             IN  SubSeq(line, 1, Len(line) - Len(LStrip(line)))

\* AIAdapter._is_line_count_change_valid
_is_line_count_change_valid(original, replacement, original_lines_count, replacement_lines_count) ==
    LET asym == {btype \in DOMAIN bracket_names :
                    \/ RemovesClosing(original, replacement, btype)
                    \/ RemovesOpening(original, replacement, btype)}
        orig_indent == get_indent(Split(original))
        repl_indent == get_indent(Split(replacement))
    IN  IF original_lines_count = replacement_lines_count
        THEN [ok |-> TRUE, msg |-> <<"Line counts match">>]
        ELSE IF _count_brackets(original) # _count_brackets(replacement)
        THEN [ok |-> FALSE, msg |-> <<"Bracket balance changed">>]
        ELSE IF FirstBad(asym) # 0
        THEN [ok |-> FALSE, msg |-> <<"asymmetric", BracketTypes[FirstBad(asym)]>>]
        ELSE IF orig_indent # repl_indent
        THEN [ok |-> FALSE, msg |-> <<"Base indentation changed">>]
        ELSE [ok |-> TRUE, msg |-> <<"Structurally sound line count change">>]

----------------------------------------------------------------------------
(* _refine_code_fixes *)

\* config.MAX_SUGGESTION_LINES
MAX_SUGGESTION_LINES == 10
\* config.WARN_SUGGESTION_LINES
WARN_SUGGESTION_LINES == 7

\* code_fix values: the key is absent, None, not a string, or a string `text`
AbsentFix == [kind |-> "absent", text |-> <<>>]
NoneFix == [kind |-> "none", text |-> <<>>]
NonStrFix == [kind |-> "nonstr", text |-> <<>>]
StrFix(text) == [kind |-> "str", text |-> text]

\* issue.get('end_line', start_line)
EndLine(issue) ==
    IF issue.end_line = None THEN issue.start_line ELSE issue.end_line

\* file_line_maps.get(file_path, {}) if file_path else {}
LineMapOf(flm, file_path) ==
    IF file_path # "" /\ file_path \in DOMAIN flm THEN flm[file_path] ELSE EmptyMap

\* the contents of the mapped lines among from..to, in line order
RECURSIVE OriginalLines(_, _, _)
OriginalLines(lm, from, to) ==
    IF from > to THEN <<>>
    ELSE (IF from \in DOMAIN lm THEN <<lm[from].content>> ELSE <<>>)
         \o OriginalLines(lm, from + 1, to)

\* faulty variant of AttachLineCodes: line_code_end is attached only when
\* end_line is mapped, without the fall back to the start record
AttachLineCodesNoFallback(issue, lm) ==
    LET start_line == issue.start_line
        end_line == IF issue.end_line = None THEN issue.start_line ELSE issue.end_line
        i1 == IF start_line \in DOMAIN lm
              THEN [issue EXCEPT !.line_code_start = <<lm[start_line].line_code>>]
              ELSE issue
    IN  IF DOMAIN lm # {} /\ start_line # 0
        THEN IF end_line \in DOMAIN lm
             THEN [i1 EXCEPT !.line_code_end = <<lm[end_line].line_code>>]
             ELSE i1
        ELSE issue

\* faulty variant of AttachLineCodes: line_code_end is never attached
AttachLineCodesStartOnly(issue, lm) ==
    IF DOMAIN lm # {} /\ issue.start_line # 0 /\ issue.start_line \in DOMAIN lm
    THEN [issue EXCEPT !.line_code_start = <<lm[issue.start_line].line_code>>]
    ELSE issue

\* attach line_code_start / line_code_end; <<>> is an absent key
AttachLineCodes(issue, lm) ==
    LET start_line == issue.start_line
        end_line == EndLine(issue)
        has_start == start_line \in DOMAIN lm
        has_end == end_line \in DOMAIN lm
        i1 == IF has_start
              THEN [issue EXCEPT !.line_code_start = <<lm[start_line].line_code>>]
              ELSE issue
    IN  IF DOMAIN lm # {} /\ start_line # 0
        THEN IF has_end THEN [i1 EXCEPT !.line_code_end = <<lm[end_line].line_code>>]
             ELSE IF has_start
             THEN [i1 EXCEPT !.line_code_end = <<lm[start_line].line_code>>]
             ELSE i1
        ELSE issue

\* faulty variant of Downgrade: the downgrade also drops the explanation
DowngradeDropsExplanation(issue) ==
    [issue EXCEPT !.suggestion_type = "conceptual", !.explanation = <<>>]

\* issue['suggestion_type'] = 'conceptual'
Downgrade(issue) == [issue EXCEPT !.suggestion_type = "conceptual"]

\* the missing-fix path: the only one that also clears code_fix
DowngradeMissing(issue) ==
    [issue EXCEPT !.suggestion_type = "conceptual", !.code_fix = NoneFix]

\* faulty variant of MissingFix: only an absent or None code_fix counts as missing
MissingFixKeyOnly(code_fix) == code_fix.kind \in {"absent", "none"}

\* `not code_fix or not isinstance(code_fix, str)`
MissingFix(code_fix) == code_fix.kind # "str" \/ code_fix.text = <<>>

\* faulty variant of TooFewLines: the comparison is off by one
TooFewLinesOffByOne(code_fix_lines, lines_to_replace) ==
    code_fix_lines + 1 < lines_to_replace

\* Rule 0: the replacement has fewer lines than the range it replaces
TooFewLines(code_fix_lines, lines_to_replace) == code_fix_lines < lines_to_replace

\* a hard limit that is not below the 15 lines of Rule 3
OverFifteen(lines_to_replace) == lines_to_replace > 15

\* faulty variant of OverMax: the warning threshold is taken for the hard limit
OverWarn(lines_to_replace) == lines_to_replace > WARN_SUGGESTION_LINES

\* Rule 1: the hard limit
OverMax(lines_to_replace) == lines_to_replace > MAX_SUGGESTION_LINES

\* Rule 3: a function-level replacement
FunctionLevel(lines_to_replace, code_fix_lines) ==
    lines_to_replace >= 15 /\ code_fix_lines >= 10

\* Rule 5: some replacement line, by position from start_line, stands against a
\* mapped line with other leading whitespace
IndentationMismatch(lm, start_line, code_fix_split) ==
    \E idx \in 0..(Len(code_fix_split) - 1) :
        /\ (start_line + idx) \in DOMAIN lm
        /\ _leading_whitespace(lm[start_line + idx].content)
              # _leading_whitespace(code_fix_split[idx + 1])

\* Rules 6, 7, 8 on the mapped original lines
StructureRejects(original_lines, code_fix_text, start_line, end_line) ==
    LET original_code == Join(original_lines)
    IN  \/ ~_validate_bracket_balance(original_code, code_fix_text).ok
        \/ _detect_bracket_side_mismatch(original_code, code_fix_text).has_mismatch
        \/ ~_check_statement_boundaries(original_lines, start_line, end_line).ok

\* one pass of the loop `for issue in issues`: the issue appended to
\* refined_issues and the number of times conceptual_conversions is incremented
RefineIssue(issue0, flm) ==
    LET l_map == LineMapOf(flm, issue0.file)
        issue == AttachLineCodes(issue0, l_map)
        code_fix == issue.code_fix
        start_line == issue.start_line
        end_line == EndLine(issue)
        lines_to_replace == end_line - start_line + 1
        code_fix_split == Split(code_fix.text)
        code_fix_lines == Len(code_fix_split)
        original_lines == OriginalLines(l_map, start_line, end_line)
        count_check == _is_line_count_change_valid(Join(original_lines), code_fix.text,
                                                   lines_to_replace, code_fix_lines)
        over_max == OverMax(lines_to_replace)
        function_level == FunctionLevel(lines_to_replace, code_fix_lines)
        sized == IF over_max \/ function_level THEN Downgrade(issue) ELSE issue
        sized_conv == (IF over_max THEN 1 ELSE 0) + (IF function_level THEN 1 ELSE 0)
    IN  IF issue.suggestion_type # "code"
        THEN [issue |-> issue, conv |-> 0]
        ELSE IF MissingFix(code_fix)
        THEN [issue |-> DowngradeMissing(issue), conv |-> 1]
        ELSE IF TooFewLines(code_fix_lines, lines_to_replace)
        THEN [issue |-> Downgrade(issue), conv |-> 1]
        ELSE IF /\ code_fix_lines # lines_to_replace
                /\ (original_lines = <<>> \/ ~count_check.ok)
        THEN [issue |-> Downgrade(issue), conv |-> 1]
        ELSE IF /\ DOMAIN l_map # {}
                /\ IndentationMismatch(l_map, start_line, code_fix_split)
        THEN [issue |-> Downgrade(sized), conv |-> sized_conv + 1]
        ELSE IF /\ DOMAIN l_map # {}
                /\ original_lines # <<>>
                /\ StructureRejects(original_lines, code_fix.text, start_line, end_line)
        THEN [issue |-> Downgrade(sized), conv |-> sized_conv + 1]
        ELSE [issue |-> sized, conv |-> sized_conv]

----------------------------------------------------------------------------
(* parse_review_response: json.loads *)

(***************************************************************************)
(* json.loads on the part of JSON the model's texts are written in:        *)
(* objects, arrays, strings without escapes, non-negative integers, null,  *)
(* true and false.  A value is [t, v]: its type and its content.  Every    *)
(* failure of the reader is a json.JSONDecodeError.                        *)
(***************************************************************************)
JsonWs == {" ", "\t", "\n", "\r"}

JNull == [t |-> "null", v |-> <<>>]
JBool(b) == [t |-> "bool", v |-> b]
JNum(n) == [t |-> "num", v |-> n]
JStr(chars) == [t |-> "str", v |-> chars]
JList(items) == [t |-> "list", v |-> items]
JDict(d) == [t |-> "dict", v |-> d]

\* the reader stopped: JSONDecodeError
ReadFail == [ok |-> FALSE, v |-> JNull, next |-> 0]
\* the reader read value v and stands at index next
ReadOk(v, next) == [ok |-> TRUE, v |-> v, next |-> next]

\* the character at index i, "" past the end
At(text, i) == IF i >= 1 /\ i <= Len(text) THEN text[i] ELSE ""

\* text has `word` at index i
HasAt(text, i, word) ==
    /\ i >= 1
    /\ i + Len(word) - 1 <= Len(text)
    /\ SubSeq(text, i, i + Len(word) - 1) = word

\* the first index from i on that holds no JSON whitespace
SkipWs(text, i) ==
    Min({j \in i..(Len(text) + 1) : j > Len(text) \/ text[j] \notin JsonWs})

\* a string, text[i] being its opening quote
ReadString(text, i) ==
    LET closes == {j \in (i + 1)..Len(text) : text[j] = "\""}
    IN  IF closes = {} THEN ReadFail
        ELSE ReadOk(JStr(SubSeq(text, i + 1, Min(closes) - 1)), Min(closes) + 1)

\* a non-negative integer, text[i] being its first digit; after a leading 0
\* the number is over
ReadNumber(text, i) ==
    LET run == Max({k \in 1..(Len(text) - i + 1) :
                       \A j \in i..(i + k - 1) : text[j] \in Digits})
        len == IF text[i] = "0" THEN 1 ELSE run
    IN  ReadOk(JNum(ToInt(SubSeq(text, i, i + len - 1))), i + len)

\* null, true, false
ReadLiteral(text, i) ==
    IF HasAt(text, i, <<"n", "u", "l", "l">>) THEN ReadOk(JNull, i + 4)
    ELSE IF HasAt(text, i, <<"t", "r", "u", "e">>) THEN ReadOk(JBool(TRUE), i + 4)
    ELSE IF HasAt(text, i, <<"f", "a", "l", "s", "e">>) THEN ReadOk(JBool(FALSE), i + 5)
    ELSE ReadFail

RECURSIVE ReadValue(_, _)
RECURSIVE ReadItems(_, _, _)
RECURSIVE ReadMembers(_, _, _)

\* the value that starts at index i
ReadValue(text, i) ==
    LET ch == At(text, i)
        j == SkipWs(text, i + 1)
    IN  IF ch = "\"" THEN ReadString(text, i)
        ELSE IF ch = "[" THEN IF At(text, j) = "]" THEN ReadOk(JList(<<>>), j + 1)
                              ELSE ReadItems(text, j, <<>>)
        ELSE IF ch = "{" THEN IF At(text, j) = "}" THEN ReadOk(JDict([k \in {} |-> JNull]), j + 1)
                              ELSE ReadMembers(text, j, [k \in {} |-> JNull])
        ELSE IF ch \in Digits THEN ReadNumber(text, i)
        ELSE ReadLiteral(text, i)

\* the items of an array from index i on, `acc` being those already read
ReadItems(text, i, acc) ==
    LET r == ReadValue(text, i)
        k == SkipWs(text, r.next)
    IN  IF ~r.ok THEN ReadFail
        ELSE IF At(text, k) = "," THEN ReadItems(text, SkipWs(text, k + 1), Append(acc, r.v))
        ELSE IF At(text, k) = "]" THEN ReadOk(JList(Append(acc, r.v)), k + 1)
        ELSE ReadFail

\* the members of an object from index i on; a repeated key keeps its last value
ReadMembers(text, i, acc) ==
    LET key == ReadString(text, i)
        c == SkipWs(text, key.next)
        r == ReadValue(text, SkipWs(text, c + 1))
        k == SkipWs(text, r.next)
        d == [x \in DOMAIN acc \cup {key.v.v} |-> IF x = key.v.v THEN r.v ELSE acc[x]]
    IN  IF At(text, i) # "\"" THEN ReadFail
        ELSE IF ~key.ok THEN ReadFail
        ELSE IF At(text, c) # ":" THEN ReadFail
        ELSE IF ~r.ok THEN ReadFail
        ELSE IF At(text, k) = "," THEN ReadMembers(text, SkipWs(text, k + 1), d)
        ELSE IF At(text, k) = "}" THEN ReadOk(JDict(d), k + 1)
        ELSE ReadFail

\* json.loads(text): [ok, v]; not ok is JSONDecodeError
json_loads(text) ==
    LET r == ReadValue(text, SkipWs(text, 1))
    IN  IF r.ok /\ SkipWs(text, r.next) > Len(text)
        THEN [ok |-> TRUE, v |-> r.v]
        ELSE [ok |-> FALSE, v |-> JNull]

----------------------------------------------------------------------------
(* parse_review_response *)

\* the characters of [\x00-\x08\x0B\x0C\x0E-\x1F\x7F] a text of the model can hold
ControlChars == {"\f"}

NotControl(ch) == ch \notin ControlChars

\* re.sub(r'[\x00-\x08\x0B\x0C\x0E-\x1F\x7F]', '', response_text)
RemoveControl(text) == SelectSeq(text, NotControl)

\* text.find(word, start): a 0-based index, or -1
Find(text, word, start) ==
    LET hits == {i \in start..(Len(text) - Len(word)) : HasAt(text, i + 1, word)}
    IN  IF hits = {} THEN 0 - 1 ELSE Min(hits)

\* text.rfind(ch): a 0-based index, or -1
RFind(text, ch) ==
    LET hits == {i \in 1..Len(text) : text[i] = ch}
    IN  IF hits = {} THEN 0 - 1 ELSE Max(hits) - 1

\* text[from:to] for from >= 0; a negative `to` counts from the end
Slice(text, from, to) ==
    LET stop == IF to < 0 THEN Max({0, Len(text) + to}) ELSE Min({to, Len(text)})
    IN  IF from >= stop THEN <<>> ELSE SubSeq(text, from + 1, stop)

\* text.rstrip()
RStripWs(text) == SubSeq(text, 1, Len(text) - TrailingRun(text, JsonWs))

\* text.strip()
StripWs(text) ==
    LET r == RStripWs(text)
    IN  SubSeq(r, LeadingRun(r, JsonWs) + 1, Len(r))

\* word in text
Contains(text, word) == \E i \in 1..(Len(text) - Len(word) + 1) : HasAt(text, i, word)

\* the backquote character (a TLA+ string cannot hold it)
Backquote == "bq"
Fence == <<Backquote, Backquote, Backquote>>
FenceJson == Fence \o <<"j", "s", "o", "n">>

\* "Remove markdown code blocks if present"; a fence that is not closed
\* gives find() = -1, and the slice then drops the last character
StripFences(text) ==
    IF Contains(text, FenceJson)
    THEN LET json_start == Find(text, FenceJson, 0) + 7
             json_end == Find(text, Fence, json_start)
         IN  StripWs(Slice(text, json_start, json_end))
    ELSE IF Contains(text, Fence)
    THEN LET json_start == Find(text, Fence, 0) + 3
             json_end == Find(text, Fence, json_start)
         IN  StripWs(Slice(text, json_start, json_end))
    ELSE text

UpperCase == <<"A", "B", "C", "D", "E", "F", "G", "H", "I", "J", "K", "L", "M",
               "N", "O", "P", "Q", "R", "S", "T", "U", "V", "W", "X", "Y", "Z">>
LowerCase == <<"a", "b", "c", "d", "e", "f", "g", "h", "i", "j", "k", "l", "m",
               "n", "o", "p", "q", "r", "s", "t", "u", "v", "w", "x", "y", "z">>

\* text.lower()
Lower(text) ==
    [i \in 1..Len(text) |->
        IF \E k \in 1..26 : UpperCase[k] = text[i]
        THEN LowerCase[CHOOSE k \in 1..26 : UpperCase[k] = text[i]]
        ELSE text[i]]

\* str(value); of the containers only the empty ones occur under str() in
\* the model, a non-empty one is rendered by its brackets alone
StrOf(value) ==
    CASE value.t = "str" -> value.v
      [] value.t = "num" -> IntText(value.v)
      [] value.t = "null" -> <<"N", "o", "n", "e">>
      [] value.t = "bool" -> IF value.v THEN <<"T", "r", "u", "e">> ELSE <<"F", "a", "l", "s", "e">>
      [] value.t = "list" -> <<"[", "]">>
      [] value.t = "dict" -> <<"{", "}">>

\* the keys of a review and of an issue
K_summary == <<"s", "u", "m", "m", "a", "r", "y">>
K_issues == <<"i", "s", "s", "u", "e", "s">>
K_severity == <<"s", "e", "v", "e", "r", "i", "t", "y">>
K_category == <<"c", "a", "t", "e", "g", "o", "r", "y">>
K_suggestion_type == <<"s", "u", "g", "g", "e", "s", "t", "i", "o", "n", "_", "t", "y", "p", "e">>
K_start_line == <<"s", "t", "a", "r", "t", "_", "l", "i", "n", "e">>
K_end_line == <<"e", "n", "d", "_", "l", "i", "n", "e">>

S_critical == <<"c", "r", "i", "t", "i", "c", "a", "l">>
S_high == <<"h", "i", "g", "h">>
S_medium == <<"m", "e", "d", "i", "u", "m">>
S_low == <<"l", "o", "w">>
S_general == <<"g", "e", "n", "e", "r", "a", "l">>
S_code == <<"c", "o", "d", "e">>
S_conceptual == <<"c", "o", "n", "c", "e", "p", "t", "u", "a", "l">>

\* d.get(key, default)
DictGet(d, key, default) == IF key \in DOMAIN d THEN d[key] ELSE default

\* some token of `tokens` is in text
AnyIn(tokens, text) == \E token \in tokens : Contains(text, token)

\* faulty variant of normalize_severity: the word 'critical' is not among the
\* tokens of the critical bucket
normalize_severity_without_critical(raw) ==
    LET text == IF raw.t = "null" THEN S_medium ELSE Lower(StrOf(raw))
    IN  IF AnyIn({<<"b", "l", "o", "c", "k", "e", "r">>, <<"p", "0">>, <<"s", "e", "v", "0">>, <<"s", "e", "v", "-", "0">>}, text)
        THEN S_critical
        ELSE IF AnyIn({S_high, <<"p", "1">>, <<"s", "e", "v", "1">>, <<"s", "e", "v", "-", "1">>}, text)
        THEN S_high
        ELSE IF AnyIn({S_low, <<"p", "3">>, <<"s", "e", "v", "3">>, <<"s", "e", "v", "-", "3">>}, text)
        THEN S_low
        ELSE S_medium

\* normalize_severity(raw)
normalize_severity(raw) ==
    LET text == IF raw.t = "null" THEN S_medium ELSE Lower(StrOf(raw))
    IN  IF AnyIn({S_critical, <<"b", "l", "o", "c", "k", "e", "r">>, <<"p", "0">>, <<"s", "e", "v", "0">>, <<"s", "e", "v", "-", "0">>}, text)
        THEN S_critical
        ELSE IF AnyIn({S_high, <<"p", "1">>, <<"s", "e", "v", "1">>, <<"s", "e", "v", "-", "1">>}, text)
        THEN S_high
        ELSE IF AnyIn({S_low, <<"p", "3">>, <<"s", "e", "v", "3">>, <<"s", "e", "v", "-", "3">>}, text)
        THEN S_low
        ELSE S_medium

S_security == <<"s", "e", "c", "u", "r", "i", "t", "y">>
S_bug == <<"b", "u", "g">>
S_performance == <<"p", "e", "r", "f", "o", "r", "m", "a", "n", "c", "e">>
S_refactoring == <<"r", "e", "f", "a", "c", "t", "o", "r", "i", "n", "g">>
S_style == <<"s", "t", "y", "l", "e">>
S_documentation == <<"d", "o", "c", "u", "m", "e", "n", "t", "a", "t", "i", "o", "n">>
S_testing == <<"t", "e", "s", "t", "i", "n", "g">>
S_validation == <<"v", "a", "l", "i", "d", "a", "t", "i", "o", "n">>

allowed_categories ==
    {S_security, S_bug, S_performance, S_refactoring, S_style,
     S_documentation, S_testing, S_validation}

\* normalize_category(raw): the first category, in the order the set is
\* iterated in, that is in the text; `order` is that order
normalize_category(raw, order) ==
    LET text == IF raw.t = "null" THEN S_general ELSE Lower(StrOf(raw))
        hits == {i \in 1..Len(order) : Contains(text, order[i])}
    IN  IF hits = {} THEN S_general ELSE order[Min(hits)]

\* 'code' if str(raw).lower().startswith('code') else 'conceptual'
normalize_suggestion_type(raw) ==
    IF StartsWith(Lower(StrOf(raw)), S_code) THEN S_code ELSE S_conceptual

\* int(value), 0 on TypeError and ValueError
IntOrZero(value) ==
    CASE value.t = "num" -> value.v
      [] value.t = "bool" -> IF value.v THEN 1 ELSE 0
      [] value.t = "str" ->
            LET body == StripWs(value.v)
                signed == body # <<>> /\ body[1] \in {"-", "+"}
                digits == IF signed THEN Tail(body) ELSE body
            IN  IF digits # <<>> /\ \A i \in 1..Len(digits) : digits[i] \in Digits
                THEN IF signed /\ body[1] = "-" THEN 0 - ToInt(digits) ELSE ToInt(digits)
                ELSE 0
      [] OTHER -> 0

\* dict(issue) if isinstance(issue, dict) else {}
AsDict(issue) == IF issue.t = "dict" THEN issue.v ELSE EmptyMap

\* normalized_issue['severity'] = normalize_severity(...)
SetSeverity(d) ==
    DictSet(d, K_severity, JStr(normalize_severity(DictGet(d, K_severity, JStr(S_medium)))))

\* normalized_issue['category'] = normalize_category(...)
SetCategory(d, order) ==
    DictSet(d, K_category,
            JStr(normalize_category(DictGet(d, K_category, JStr(S_general)), order)))

\* normalized_issue['suggestion_type'] = ...
SetSuggestionType(d) ==
    DictSet(d, K_suggestion_type,
            JStr(normalize_suggestion_type(DictGet(d, K_suggestion_type, JStr(S_code)))))

\* one pass of `for key in ('start_line', 'end_line')`
SetLine(d, key) ==
    IF key \in DOMAIN d THEN DictSet(d, key, JNum(IntOrZero(d[key]))) ELSE d

\* the loop body of the normalisation: one issue
NormalizeIssue(issue, order) ==
    JDict(SetLine(SetLine(SetSuggestionType(SetCategory(SetSeverity(AsDict(issue)), order)),
                          K_start_line),
                  K_end_line))

\* what a call gave: the path it returned on and the value returned, or
\* the exception that left the function
Returned(path, value) == [path |-> path, raised |-> FALSE, value |-> value]
Raised(error) == [path |-> "raised", raised |-> TRUE, value |-> JStr(<<error>>)]

\* `for issue in review_data['issues']` can run over this value
IsIterable(value) == value.t \in {"list", "str", "dict"}

\* what the loop runs over: the items of a list, the characters of a str,
\* the keys of a dict (each key is a str; only its not being a dict is used)
ItemsOf(value) ==
    CASE value.t = "list" -> value.v
      [] value.t = "str" -> [i \in 1..Len(value.v) |-> JStr(<<value.v[i]>>)]
      [] value.t = "dict" -> [i \in 1..Cardinality(DOMAIN value.v) |-> JStr(<<>>)]

\* severity_order.get(x.get('severity', 'low').lower(), 4)
SeverityRank(issue) ==
    LET text == Lower(StrOf(DictGet(issue.v, K_severity, JStr(S_low))))
    IN  CASE text = S_critical -> 0
          [] text = S_high -> 1
          [] text = S_medium -> 2
          [] text = S_low -> 3
          [] OTHER -> 4

\* the issues of one rank, in their order
OfRank(items, rank) ==
    LET HasRank(issue) == SeverityRank(issue) = rank
    IN  SelectSeq(items, HasRank)

\* list.sort(key=rank): stable
SortBySeverity(items) ==
    OfRank(items, 0) \o OfRank(items, 1) \o OfRank(items, 2)
        \o OfRank(items, 3) \o OfRank(items, 4)

\* if key not in d: d[key] = value
WithDefault(d, key, value) == IF key \in DOMAIN d THEN d ELSE DictSet(d, key, value)

\* "Normalize top-level structure" and "Validate structure": the dict
TopLevel(review_data) ==
    IF review_data.t = "list"
    THEN DictSet(DictSet(EmptyMap, K_summary, JStr(<<"R", "e", "v", "i", "e", "w", " ", "c", "o", "m", "p", "l", "e", "t", "e", "d">>)),
                 K_issues, review_data)
    ELSE IF review_data.t # "dict"
    THEN DictSet(DictSet(EmptyMap, K_summary, JStr(StrOf(review_data))),
                 K_issues, JList(<<>>))
    ELSE WithDefault(WithDefault(review_data.v, K_summary,
                                 JStr(<<"R", "e", "v", "i", "e", "w", " ", "c", "o", "m", "p", "l", "e", "t", "e", "d">>)),
                     K_issues, JList(<<>>))

\* normalized_issues after the loop over `items`
NormalizeIssues(items, order) ==
    [i \in 1..Len(items) |-> NormalizeIssue(items[i], order)]

\* the loop and the sort on the dict `top`; the loop over a value that
\* cannot be iterated raises TypeError, which nothing catches
NormalizeTop(top, order) ==
    IF ~IsIterable(top[K_issues]) THEN Raised("TypeError")
    ELSE Returned("parsed",
                  JDict(DictSet(top, K_issues,
                                JList(SortBySeverity(
                                        NormalizeIssues(ItemsOf(top[K_issues]), order))))))

\* the try block after json.loads returned review_data
NormalParse(review_data, order) == NormalizeTop(TopLevel(review_data), order)

\* "Last resort: return error response"
LastResort(text) ==
    Returned("last_resort",
        JDict(DictSet(DictSet(EmptyMap, K_summary,
                JStr(<<"R", "e", "v", "i", "e", "w", " ", "c", "o", "m", "p", "l", "e", "t", "e", "d", " ", "w", "i", "t", "h", " ", "p", "a", "r", "s", "i", "n", "g", " ", "i", "s", "s", "u", "e", "s", ".", " ", "R", "a", "w", " ", "r", "e", "s", "p", "o", "n", "s", "e", " ", "(", "t", "r", "u", "n", "c", "a", "t", "e", "d", ")", ":", " ">>
                     \o Slice(text, 0, 300) \o <<".", ".", ".">>)),
              K_issues, JList(<<>>))))

\* "Add missing closures" to the text cut after its last '}'
CloseBrackets(cut) ==
    cut \o [i \in 1..(Count(cut, "[") - Count(cut, "]")) |-> "]"]
        \o [i \in 1..(Count(cut, "{") - Count(cut, "}")) |-> "}"]

\* the salvage after json.loads(fixed_text) gave r: .get() on a value that
\* is not a dict and len() of a value without a length raise, and every
\* exception of the salvage leads to the last resort
SalvageLoaded(r, text) ==
    IF ~r.ok THEN LastResort(text)
    ELSE IF r.v.t # "dict" THEN LastResort(text)
    ELSE IF K_issues \in DOMAIN r.v.v /\ ~IsIterable(r.v.v[K_issues]) THEN LastResort(text)
    ELSE Returned("salvaged",
                  JDict(WithDefault(WithDefault(r.v.v, K_summary,
                            JStr(<<"R", "e", "v", "i", "e", "w", " ", "c", "o", "m", "p", "l", "e", "t", "e", "d", " ", "(", "r", "e", "s", "p", "o", "n", "s", "e", " ", "w", "a", "s", " ", "t", "r", "u", "n", "c", "a", "t", "e", "d", ")">>)),
                        K_issues, JList(<<>>))))

\* the else branch of the salvage, last_complete being the rfind('}')
SalvageCut(text, last_complete) ==
    IF last_complete <= 0 THEN LastResort(text)
    ELSE SalvageLoaded(json_loads(CloseBrackets(Slice(text, 0, last_complete + 1))), text)

\* text.endswith('"')
EndsWithQuote(text) == text # <<>> /\ text[Len(text)] = "\""

\* the except block: "Try to salvage partial JSON"; a text that ends with a
\* quote is left as it is and nothing is returned from the salvage
Salvage(text) ==
    IF EndsWithQuote(RStripWs(text)) THEN LastResort(text)
    ELSE SalvageCut(text, RFind(text, "}"))

\* what follows json.loads(text), r being what it gave
ParseLoaded(r, text, order) ==
    IF r.ok THEN NormalParse(r.v, order) ELSE Salvage(text)

\* the function on the text left by the cleaning
ParseCleaned(text, order) == ParseLoaded(json_loads(text), text, order)

\* AIAdapter.parse_review_response; `order` is the order in which the set
\* allowed_categories is iterated
parse_review_response(response_text, order) ==
    ParseCleaned(StripFences(RemoveControl(response_text)), order)

----------------------------------------------------------------------------
(* format_inline_comment: the suggestion block of a comment *)

\* text.upper()
Upper(text) ==
    [i \in 1..Len(text) |->
        IF \E k \in 1..26 : LowerCase[k] = text[i]
        THEN UpperCase[CHOOSE k \in 1..26 : LowerCase[k] = text[i]]
        ELSE text[i]]

\* text.strip('\n')
StripNewlines(text) ==
    LET l == SubSeq(text, LeadingRun(text, {"\n"}) + 1, Len(text))
    IN  SubSeq(l, 1, Len(l) - TrailingRun(l, {"\n"}))

\* the comment has no code block
NoBlock == [block |-> "none", lines |-> 0, text |-> <<>>]

\* the block "Suggested approach": the text in a plain code fence
ApproachBlock(text) == [block |-> "approach", lines |-> 0, text |-> text]

\* the block "Suggested fix: Delete n line(s)": an empty suggestion that
\* removes the comment line and lines - 1 lines after it
DeletionBlock(lines) == [block |-> "deletion", lines |-> lines, text |-> <<>>]

\* the block "Suggested fix": a suggestion that replaces the comment line
\* and lines - 1 lines after it by the text
SuggestionBlock(lines, text) == [block |-> "suggestion", lines |-> lines, text |-> text]

\* is_deletion: code_fix is a str that is blank or, stripped, 'DELETE' in any case
IsDeletion(code_fix) ==
    /\ code_fix.kind = "str"
    /\ \/ StripWs(code_fix.text) = <<>>
       \/ Upper(StripWs(code_fix.text)) = <<"D", "E", "L", "E", "T", "E">>

\* the code block for a str code_fix, `text` being code_fix after lines 33-39
BlockOf(issue, is_deletion, text) ==
    IF issue.suggestion_type = "code"
    THEN IF issue.start_line <= 0 \/ EndLine(issue) < issue.start_line
         THEN ApproachBlock(text)
         ELSE IF is_deletion
         THEN DeletionBlock(EndLine(issue) - issue.start_line + 1)
         ELSE IF Len(Split(text)) < EndLine(issue) - issue.start_line + 1
         THEN ApproachBlock(text)
         ELSE SuggestionBlock(EndLine(issue) - issue.start_line + 1, text)
    ELSE IF StripWs(text) # <<>> THEN ApproachBlock(text) ELSE NoBlock

\* format_inline_comment(issue): the code block of the comment
format_inline_comment(issue) ==
    IF issue.code_fix.kind # "str" THEN NoBlock
    ELSE IF IsDeletion(issue.code_fix) THEN BlockOf(issue, TRUE, <<>>)
    ELSE BlockOf(issue, FALSE, StripNewlines(issue.code_fix.text))

----------------------------------------------------------------------------
(* SpecMap: _build_new_file_maps reading the diff of one file line by line *)

\* the file whose diff SpecMap reads
MapPath == "a.py"

HdrP1 == <<"@", "@", " ", "-", "1", "0", ",", "3", " ", "+", "1", "0", ",", "4", " ", "@", "@">>
HdrOne == <<"@", "@", " ", "-", "1", " ", "+", "1", " ", "@", "@", " ", "f">>
AddA == <<"+", "a">>
RemR == <<"-", "r">>
CtxC == <<" ", "c">>
MetaN == <<"\\", " ", "N">>

\* the lines a diff is made of in SpecMap
DiffLineSet == {HdrP1, HdrOne, AddA, RemR, CtxC, MetaN}

\* the loop variables as one record
MapState ==
    [current_new_line |-> current_new_line,
     current_old_line |-> current_old_line,
     removed_old_lines |-> removed_old_lines,
     line_map |-> line_map]

\* the loop body on `line`: every loop variable takes its value after the pass
MapLine(line) ==
    LET st == ParseLine(MapState, MapPath, line)
    IN  /\ diff' = Append(diff, line)
        /\ current_new_line' = st.current_new_line
        /\ current_old_line' = st.current_old_line
        /\ removed_old_lines' = st.removed_old_lines
        /\ line_map' = st.line_map
        /\ emitted' = IF LineKind(MapState, line) \in {"added", "context"}
                      THEN Append(emitted,
                                  [new_line |-> current_new_line,
                                   old_line |-> st.line_map[current_new_line].old_line])
                      ELSE emitted

\* the loop has a next line to read
MoreLines == mpc = "parse" /\ Len(diff) < MaxDiffLines

MapHeader ==
    /\ MoreLines
    /\ \E line \in DiffLineSet :
          /\ LineKind(MapState, line) = "header"
          /\ MapLine(line)
    /\ UNCHANGED <<mpc, refine_vars, pure_vars>>

MapSkip ==
    /\ MoreLines
    /\ \E line \in DiffLineSet :
          /\ LineKind(MapState, line) = "skip"
          /\ MapLine(line)
    /\ UNCHANGED <<mpc, refine_vars, pure_vars>>

MapAdded ==
    /\ MoreLines
    /\ \E line \in DiffLineSet :
          /\ LineKind(MapState, line) = "added"
          /\ MapLine(line)
    /\ UNCHANGED <<mpc, refine_vars, pure_vars>>

MapRemoved ==
    /\ MoreLines
    /\ \E line \in DiffLineSet :
          /\ LineKind(MapState, line) = "removed"
          /\ MapLine(line)
    /\ UNCHANGED <<mpc, refine_vars, pure_vars>>

MapContext ==
    /\ MoreLines
    /\ \E line \in DiffLineSet :
          /\ LineKind(MapState, line) = "context"
          /\ MapLine(line)
    /\ UNCHANGED <<mpc, refine_vars, pure_vars>>

MapMeta ==
    /\ MoreLines
    /\ \E line \in DiffLineSet :
          /\ LineKind(MapState, line) = "meta"
          /\ MapLine(line)
    /\ UNCHANGED <<mpc, refine_vars, pure_vars>>

\* after the loop: `if line_map: file_maps[file_path] = line_map`
MapFinish ==
    /\ mpc = "parse"
    /\ mpc' = "done"
    /\ file_line_maps' = IF DOMAIN line_map # {}
                         THEN DictSet(EmptyMap, MapPath, line_map)
                         ELSE EmptyMap
    /\ UNCHANGED <<diff, current_new_line, current_old_line, removed_old_lines,
                   line_map, emitted, changes, issues, refined_issues,
                   conceptual_conversions, pc, pure_vars>>

MapIdle ==
    /\ diff = <<>>
    /\ current_new_line = None
    /\ current_old_line = None
    /\ removed_old_lines = <<>>
    /\ line_map = EmptyMap
    /\ emitted = <<>>

\* no call of the line code functions
IdIdle == triples = <<>> /\ line_codes = <<>>

\* no call of a structural validator
ValidatorIdle == given_original = <<>> /\ given_replacement = <<>> /\ verdict = <<>>

\* parse_review_response is not called
ParseIdle == given_response = <<>> /\ category_order = <<>> /\ parsed = <<>>

\* none of the functions called on their own is running
\* the normalisation rules are not called
NormIdle == raw_value = <<>> /\ norm_once = <<>> /\ norm_again = <<>>

\* post_inline_comment is not called
PostIdle == post_args = <<>> /\ sent = <<>> /\ post_result = <<>> /\ ppc = "idle"

\* main is not running
MainIdle ==
    /\ main_issues = <<>> /\ main_log = <<>>
    /\ posted_count = 0 /\ failed_count = 0 /\ status_code = 0 - 1

\* resolve_model is not called
ResolveIdle == given_provider = <<>> /\ given_model = <<>> /\ resolved = <<>>

\* none of the remaining functions is running
OtherIdle == NormIdle /\ PostIdle /\ MainIdle /\ ResolveIdle

PureIdle == IdIdle /\ ValidatorIdle /\ ParseIdle /\ OtherIdle

RefineIdle ==
    /\ changes = <<>>
    /\ issues = <<>>
    /\ refined_issues = <<>>
    /\ conceptual_conversions = 0
    /\ file_line_maps = EmptyMap

InitMap == MapIdle /\ mpc = "parse" /\ RefineIdle /\ pc = "idle" /\ PureIdle

NextMap ==
    \/ MapHeader
    \/ MapSkip
    \/ MapAdded
    \/ MapRemoved
    \/ MapContext
    \/ MapMeta
    \/ MapFinish

SpecMap == InitMap /\ [][NextMap]_vars

----------------------------------------------------------------------------
(* SpecLineId: the two line code functions, one computation per step *)

\* file paths, with and without '_' and digits in them
IdPaths == {"a.py", "a_1", "a"}

\* old and new line numbers, of one and of two digits
IdLines == {0, 1, 12, 21}

\* one computation: the mapper's line code for (path, old_line, new_line) and
\* the client's for the same position; `absent` is a client call that leaves
\* old_line to its default None
ComputeLineCode(path, old_line, new_line, absent) ==
    /\ triples' = Append(triples, [path |-> path, old_line |-> old_line,
                                   new_line |-> new_line, absent |-> absent])
    /\ line_codes' = Append(line_codes,
          [mapper |-> generate_line_code(path, old_line, new_line),
           client |-> _generate_line_code(path, new_line,
                                          IF absent THEN None ELSE old_line)])

MoreCalls == Len(triples) < MaxCalls /\ pc = "idle" /\ mpc = "idle"

\* both functions are given the old line
LineCodeBoth ==
    /\ MoreCalls
    /\ \E path \in IdPaths, old_line \in IdLines, new_line \in IdLines :
          ComputeLineCode(path, old_line, new_line, FALSE)
    /\ UNCHANGED <<refine_vars, map_vars, validator_vars, parse_vars, other_vars>>

\* a pure insertion: old_line 0 in the mapper, no old_line in the client
LineCodeInsertion ==
    /\ MoreCalls
    /\ \E path \in IdPaths, new_line \in IdLines :
          ComputeLineCode(path, 0, new_line, TRUE)
    /\ UNCHANGED <<refine_vars, map_vars, validator_vars, parse_vars, other_vars>>

InitLineId == IdIdle /\ ValidatorIdle /\ ParseIdle /\ OtherIdle /\ MapIdle /\ mpc = "idle" /\ RefineIdle /\ pc = "idle"

NextLineId == LineCodeBoth \/ LineCodeInsertion

SpecLineId == InitLineId /\ [][NextLineId]_vars

----------------------------------------------------------------------------
(* Spec: _refine_code_fixes, one issue per step *)

\* lines of file text
Lx == <<"x">>
Lf == <<"f", "(", ")">>
Lfo == <<"f", "(">>
Lg == <<" ", " ", "g", "{">>
Lc == <<" ", " ", "}">>
Lix == <<" ", " ", "x">>
Le == <<"e", "l", "s", "e">>

\* n times the line `line`
RECURSIVE Repeat(_, _)
Repeat(line, n) == IF n = 0 THEN <<>> ELSE <<line>> \o Repeat(line, n - 1)

HdrA == <<"@", "@", " ", "-", "1", ",", "3", " ", "+", "1", ",", "5", " ", "@", "@">>

\* a.py after the change: 1 "f()", 2 "  g{", 3 "  }", 4 "else", 5 "x"
DiffA ==
    Join(<<HdrA, <<" ">> \o Lf, <<"-", "r">>, <<"+">> \o Lg, <<"+">> \o Lc,
           <<" ">> \o Le, <<"+">> \o Lx, MetaN>>)

\* a diff without a hunk header
DiffNoHeader == Join(<<<<" ">> \o Lx, <<"+">> \o Lx>>)

\* a.py after the change: 1 "x"
DiffB == Join(<<HdrOne, <<"+">> \o Lx>>)

Change(new_path, old_path, diff_text) ==
    [new_path |-> new_path, old_path |-> old_path, diff |-> diff_text]

ChangesA ==
    <<Change("a.py", "a.py", DiffA),
      Change("b.py", "b.py", <<>>),
      Change("n.py", "n.py", DiffNoHeader)>>

ChangesB == <<Change("", "a.py", DiffB), Change("", "", DiffA)>>

\* the texts of the end-to-end scenario
NewLine == <<"n", "e", "w", " ", "l", "i", "n", "e">>
OldLine == <<"o", "l", "d", " ", "l", "i", "n", "e">>
ContextLine == <<"c", "o", "n", "t", "e", "x", "t">>
NewLineFixed == NewLine \o <<" ", "f", "i", "x", "e", "d">>

\* '@@ -1,2 +1,2 @@', '-old line', '+new line', ' context'
ScenarioDiff ==
    Join(<<<<"@", "@", " ", "-", "1", ",", "2", " ", "+", "1", ",", "2", " ", "@", "@">>,
           <<"-">> \o OldLine, <<"+">> \o NewLine, <<" ">> \o ContextLine>>)

ChangesScenario == <<Change("a.py", "a.py", ScenarioDiff)>>

\* the `changes` arguments of the model
ChangeSets == {ChangesA, ChangesB, ChangesScenario}

\* the replacement of a.py 1..8 that repeats the mapped lines
Fix8 == Join(<<Lf, Lg, Lc, Le>> \o Repeat(Lx, 4))

Issue(file, start_line, end_line, suggestion_type, code_fix) ==
    [file |-> file,
     start_line |-> start_line,
     end_line |-> end_line,
     severity |-> IF suggestion_type = "code" THEN "high" ELSE "low",
     category |-> "bug",
     issue |-> <<"summary", file, start_line>>,
     explanation |-> <<"why", suggestion_type>>,
     suggestion_type |-> suggestion_type,
     code_fix |-> code_fix,
     line_code_start |-> <<>>,
     line_code_end |-> <<>>]

\* code suggestions with a replacement text: <<file, start_line, end_line, text>>
CodeCases ==
    {<<"a.py", 1, 1, Lf>>, <<"a.py", 1, None, Lx>>, <<"a.py", 1, 1, Lix>>,
     <<"a.py", 1, 1, Lfo>>, <<"a.py", 2, 2, Lg>>, <<"a.py", 2, 2, Lix>>,
     <<"a.py", 3, 3, Lc>>, <<"a.py", 4, 4, Lx>>,
     <<"a.py", 2, 3, Join(<<Lg, Lc>>)>>, <<"a.py", 2, 3, Lix>>,
     <<"a.py", 2, 3, Join(<<Lg, Lix, Lc>>)>>, <<"a.py", 1, 3, Join(<<Lx, Lx>>)>>,
     <<"a.py", 5, 5, Join(<<Lx, Lx>>)>>, <<"a.py", 5, 5, Join(<<Lx, Lix>>)>>,
     <<"a.py", 5, 5, Join(<<Lx, Lfo>>)>>,
     <<"a.py", 7, 7, Lx>>, <<"a.py", 0, None, Lx>>, <<"a.py", 3, 2, Lx>>,
     <<"a.py", 1, 8, Fix8>>, <<"a.py", 1, 10, Join(Repeat(Lx, 10))>>,
     <<"a.py", 1, 11, Join(Repeat(Lx, 11))>>,
     <<"a.py", 1, 11, Join(<<Lf, Lg, Lc, Le>> \o Repeat(Lx, 7))>>,
     <<"a.py", 1, 15, Join(Repeat(Lx, 15))>>,
     <<"a.py", 1, 15, Join(<<Lf, Lg, Lc, Le>> \o Repeat(Lx, 11))>>,
     <<"b.py", 1, 1, Lx>>, <<"n.py", 1, 1, Lx>>, <<"n.py", 1, 2, Lx>>,
     <<"c.py", 1, 1, Lx>>, <<"c.py", 1, 1, Join(<<Lx, Lx>>)>>,
     <<"c.py", 1, 9, Join(Repeat(Lx, 9))>>,
     <<"c.py", 1, 11, Join(Repeat(Lx, 11))>>,
     <<"c.py", 1, 15, Join(Repeat(Lx, 15))>>,
     <<"", 1, 1, Lx>>, <<"", 1, 2, Lx>>,
     <<"a.py", 1, 1, NewLineFixed>>}

\* the issues an `issues` argument is made of
IssueSet ==
    {Issue(c[1], c[2], c[3], "code", StrFix(c[4])) : c \in CodeCases}
    \cup {Issue(f, 1, None, "code", fix) :
            f \in {"a.py", "c.py"},
            fix \in {AbsentFix, NoneFix, NonStrFix, StrFix(<<>>)}}
    \cup {Issue("a.py", 2, e, t, fix) :
            e \in {None, 3, 9},
            t \in {"conceptual", "example"},
            fix \in {AbsentFix, StrFix(Lix)}}
    \cup {Issue("c.py", 1, 2, "conceptual", AbsentFix),
          Issue("", 0, None, "example", StrFix(Lx))}

Init ==
    /\ changes \in ChangeSets
    /\ issues = <<>>
    /\ refined_issues = <<>>
    /\ conceptual_conversions = 0
    /\ file_line_maps = EmptyMap
    /\ pc = "start"
    /\ MapIdle
    /\ mpc = "idle"
    /\ PureIdle

\* file_line_maps = self._build_new_file_maps(changes)
BuildMaps ==
    /\ pc = "start"
    /\ file_line_maps' = _build_new_file_maps(changes)
    /\ pc' = "loop"
    /\ UNCHANGED <<changes, issues, refined_issues, conceptual_conversions, map_vars, pure_vars>>

\* the loop body on `issue`
RefineStep(issue) ==
    LET r == RefineIssue(issue, file_line_maps)
    IN  /\ issues' = Append(issues, issue)
        /\ refined_issues' = Append(refined_issues, r.issue)
        /\ conceptual_conversions' = conceptual_conversions + r.conv

\* the loop has a next issue
MoreIssues == pc = "loop" /\ Len(issues) < MaxIssues

\* an issue that is not a code suggestion: appended after the line codes are attached
RefineSkip ==
    /\ MoreIssues
    /\ \E issue \in IssueSet :
          /\ issue.suggestion_type # "code"
          /\ RefineStep(issue)
    /\ UNCHANGED <<changes, file_line_maps, pc, map_vars, pure_vars>>

\* a code suggestion: through the rules
RefineCode ==
    /\ MoreIssues
    /\ \E issue \in IssueSet :
          /\ issue.suggestion_type = "code"
          /\ RefineStep(issue)
    /\ UNCHANGED <<changes, file_line_maps, pc, map_vars, pure_vars>>

\* return refined_issues
Return ==
    /\ pc = "loop"
    /\ pc' = "done"
    /\ UNCHANGED <<changes, issues, refined_issues, conceptual_conversions,
                   file_line_maps, map_vars, pure_vars>>

Next ==
    \/ BuildMaps
    \/ RefineSkip
    \/ RefineCode
    \/ Return

Spec == Init /\ [][Next]_vars

----------------------------------------------------------------------------
(* SpecValidators: the structural validators, one original/replacement pair *)

\* largest line count handed to _is_line_count_change_valid
MaxLineCount == 3

\* 'if (x) { y(); }' and the same text without its closing '}'
IfBlock ==
    <<"i", "f", " ", "(", "x", ")", " ", "{", " ", "y", "(", ")", ";", " ", "}">>
IfBlockCut == SubSeq(IfBlock, 1, Len(IfBlock) - 1)

\* the texts an original or a replacement is drawn from
ValidatorTexts ==
    {IfBlock, IfBlockCut, <<>>, Lx, Lix, Lfo, Lf, Lc,
     <<"a", "[", "0", "]">>, <<"a", "[", "0">>, <<"0", "]">>,
     <<"{", "(">>, <<"}", "(">>, <<")", "{">>,
     Join(<<Lx, Lx>>), Join(<<<<>>, Lix>>), Join(<<<<" ">>, Lx>>),
     Join(<<Lg, Lc>>), Join(<<<<"\t", "x">>, Lx>>)}

\* has_mismatch, msg = _detect_bracket_side_mismatch(original, replacement)
DetectSideMismatch ==
    /\ verdict = <<>>
    /\ verdict' = <<[fn |-> "_detect_bracket_side_mismatch",
                     result |-> _detect_bracket_side_mismatch(given_original, given_replacement)]>>
    /\ UNCHANGED <<given_original, given_replacement, id_vars, parse_vars, other_vars, refine_vars, map_vars>>

\* is_valid, reason = _is_line_count_change_valid(original, replacement, n, m)
ValidateLineCountChange ==
    /\ verdict = <<>>
    /\ \E n \in 1..MaxLineCount, m \in 1..MaxLineCount :
          verdict' = <<[fn |-> "_is_line_count_change_valid",
                        original_lines_count |-> n,
                        replacement_lines_count |-> m,
                        result |-> _is_line_count_change_valid(given_original, given_replacement, n, m)]>>
    /\ UNCHANGED <<given_original, given_replacement, id_vars, parse_vars, other_vars, refine_vars, map_vars>>

InitValidators ==
    /\ given_original \in ValidatorTexts
    /\ given_replacement \in ValidatorTexts
    /\ verdict = <<>>
    /\ IdIdle /\ ParseIdle /\ OtherIdle /\ MapIdle /\ mpc = "idle" /\ RefineIdle /\ pc = "idle"

NextValidators == DetectSideMismatch \/ ValidateLineCountChange

SpecValidators == InitValidators /\ [][NextValidators]_vars

----------------------------------------------------------------------------
(* SpecParse: parse_review_response called once on one response text *)

\* a complete response with a summary and two issues
ResponseWithSummary ==
    <<"{", "\"", "s", "u", "m", "m", "a", "r", "y", "\"", ":", " ", "\"", "o", "k", "\"",
      ",", " ", "\"", "i", "s", "s", "u", "e", "s", "\"", ":", " ", "[", "{", "\"", "s",
      "e", "v", "e", "r", "i", "t", "y", "\"", ":", " ", "\"", "L", "O", "W", "\"", ",",
      " ", "\"", "c", "a", "t", "e", "g", "o", "r", "y", "\"", ":", " ", "\"", "B", "u",
      "g", "\"", "}", ",", " ", "{", "\"", "s", "e", "v", "e", "r", "i", "t", "y", "\"",
      ":", " ", "\"", "c", "r", "i", "t", "i", "c", "a", "l", "\"", ",", " ", "\"", "s",
      "t", "a", "r", "t", "_", "l", "i", "n", "e", "\"", ":", " ", "\"", "7", "\"", "}",
      "]", "}">>

\* a complete response without a summary
ResponseWithoutSummary ==
    <<"{", "\"", "i", "s", "s", "u", "e", "s", "\"", ":", " ", "[", "{", "\"", "s", "e",
      "v", "e", "r", "i", "t", "y", "\"", ":", " ", "\"", "h", "i", "g", "h", "\"", "}",
      ",", " ", "{", "\"", "s", "e", "v", "e", "r", "i", "t", "y", "\"", ":", " ", "\"",
      "P", "0", " ", "b", "l", "o", "c", "k", "e", "r", "\"", ",", " ", "\"", "s", "u",
      "g", "g", "e", "s", "t", "i", "o", "n", "_", "t", "y", "p", "e", "\"", ":", " ",
      "\"", "C", "o", "n", "c", "e", "p", "t", "u", "a", "l", "\"", "}", "]", "}">>

\* the texts a model cut off by the length limit leaves of a response
Prefixes(text) == {SubSeq(text, 1, n) : n \in 1..Len(text)}

\* other responses: top-level values that are not a dict, `issues` values
\* that are not a list, fenced JSON, control characters, cut-off texts
OtherResponses ==
    {<<"{", "\"", "s", "u", "m", "m", "a", "r", "y", "\"", ":", " ", "\"", "s", "\"", ",",
       " ", "\"", "i", "s", "s", "u", "e", "s", "\"", ":", " ", "5", "}">>,
     <<"{", "\"", "i", "s", "s", "u", "e", "s", "\"", ":", " ", "n", "u", "l", "l", "}">>,
     <<"{", "\"", "i", "s", "s", "u", "e", "s", "\"", ":", " ", "\"", "a", "b", "\"", "}">>,
     <<"{", "\"", "i", "s", "s", "u", "e", "s", "\"", ":", " ", "{", "\"", "a", "\"", ":",
       " ", "1", "}", "}">>,
     <<"{", "\"", "i", "s", "s", "u", "e", "s", "\"", ":", " ", "[", "1", ",", " ", "\"",
       "x", "\"", ",", " ", "n", "u", "l", "l", "]", "}">>,
     <<"[", "{", "\"", "s", "e", "v", "e", "r", "i", "t", "y", "\"", ":", " ", "\"", "l",
       "o", "w", "\"", "}", ",", " ", "{", "\"", "s", "e", "v", "e", "r", "i", "t", "y",
       "\"", ":", " ", "\"", "h", "i", "g", "h", "\"", "}", "]">>,
     <<"5">>,
     <<"\"", "t", "e", "x", "t", "\"">>,
     <<"{", "\"", "i", "s", "s", "u", "e", "s", "\"", ":", " ", "[", "{", "\"", "c", "a",
       "t", "e", "g", "o", "r", "y", "\"", ":", " ", "\"", "s", "e", "c", "u", "r", "i",
       "t", "y", " ", "b", "u", "g", "\"", "}", "]", "}">>,
     <<Backquote, Backquote, Backquote, "j", "s", "o", "n", "\n", "{", "\"", "i", "s", "s", "u", "e", "s",
       "\"", ":", " ", "[", "]", "}", "\n", Backquote, Backquote, Backquote>>,
     <<"H", "e", "r", "e", ":", "\n", Backquote, Backquote, Backquote, "\n", "{", "\"", "s", "u", "m", "m",
       "a", "r", "y", "\"", ":", " ", "\"", "f", "\"", "}", "\n", Backquote, Backquote, Backquote, "\n", "b",
       "y", "e">>,
     <<Backquote, Backquote, Backquote, "j", "s", "o", "n", "\n", "{", "\"", "i", "s", "s", "u", "e", "s",
       "\"", ":", " ", "[", "{", "\"", "a", "\"", ":", " ", "1", "}", ",", " ", "{", "\"",
       "b">>,
     <<"{", "\"", "i", "s", "s", "u", "e", "s", "\"", ":", " ", "[", "{", "\"", "s", "e",
       "v", "e", "r", "i", "t", "y", "\"", ":", " ", "\"", "L", "O", "W", "\"", "}", ",",
       " ", "{", "\"", "s", "e", "v", "e", "r", "i", "t", "y", "\"", ":", " ", "\"", "c",
       "r", "i", "t", "i", "c", "a", "l", "\"", "}", ",", " ", "{">>,
     <<"{", "\"", "i", "s", "s", "u", "e", "s", "\"", ":", " ", "[", "{", "\"", "f", "i",
       "x", "\"", ":", " ", "{", "\"", "a", "\"", ":", " ", "1", "}", "}", ",", " ", "{",
       "\"", "f", "i", "x", "\"", ":", " ", "{", "\"", "b", "\"", ":", " ", "2">>,
     <<"{", "\"", "i", "s", "s", "u", "e", "s", "\"", ":", " ", "\"", "a", "b", "\"", "}",
       " ", "x">>,
     <<"{", "\"", "i", "s", "s", "u", "e", "s", "\"", ":", " ", "5", "}", " ", "x">>,
     <<"", "{", "\"", "s", "u", "m", "m", "a", "r", "y", "\"", ":", " ", "\"", "c", "\"",
       "}">>}

ResponseTexts ==
    Prefixes(ResponseWithSummary) \cup Prefixes(ResponseWithoutSummary)
        \cup OtherResponses

\* two of the orders in which the set allowed_categories can be iterated
CategoryOrders ==
    {<<S_security, S_bug, S_performance, S_refactoring, S_style,
       S_documentation, S_testing, S_validation>>,
     <<S_validation, S_testing, S_documentation, S_style, S_refactoring,
       S_performance, S_bug, S_security>>}

\* how the call on the given text ends
Outcome == parse_review_response(given_response, category_order)

\* the try block returns the normalised review
ParseReturns ==
    /\ given_response # <<>> /\ parsed = <<>>
    /\ Outcome.path = "parsed"
    /\ parsed' = <<Outcome>>
    /\ UNCHANGED <<given_response, category_order, id_vars, validator_vars, other_vars, refine_vars, map_vars>>

\* an exception other than json.JSONDecodeError leaves the function
ParseRaises ==
    /\ given_response # <<>> /\ parsed = <<>>
    /\ Outcome.path = "raised"
    /\ parsed' = <<Outcome>>
    /\ UNCHANGED <<given_response, category_order, id_vars, validator_vars, other_vars, refine_vars, map_vars>>

\* the except block returns the salvaged review
ParseSalvages ==
    /\ given_response # <<>> /\ parsed = <<>>
    /\ Outcome.path = "salvaged"
    /\ parsed' = <<Outcome>>
    /\ UNCHANGED <<given_response, category_order, id_vars, validator_vars, other_vars, refine_vars, map_vars>>

\* the last return statement of the function
ParseGivesUp ==
    /\ given_response # <<>> /\ parsed = <<>>
    /\ Outcome.path = "last_resort"
    /\ parsed' = <<Outcome>>
    /\ UNCHANGED <<given_response, category_order, id_vars, validator_vars, other_vars, refine_vars, map_vars>>

InitParse ==
    /\ given_response \in ResponseTexts
    /\ category_order \in CategoryOrders
    /\ parsed = <<>>
    /\ IdIdle /\ ValidatorIdle /\ OtherIdle /\ MapIdle /\ mpc = "idle" /\ RefineIdle /\ pc = "idle"

NextParse == ParseReturns \/ ParseRaises \/ ParseSalvages \/ ParseGivesUp

SpecParse == InitParse /\ [][NextParse]_vars

----------------------------------------------------------------------------
(* SpecNormalize: the three normalisation rules on one raw value, twice *)

\* raw values of a field of an issue: texts and values that are not texts
RawValues ==
    {JNull, JNum(0), JNum(3), JBool(TRUE), JBool(FALSE), JList(<<>>),
     JStr(<<"b", "l", "o", "c", "k", "e", "r">>),
     JStr(<<"S", "e", "v", "0">>),
     JStr(<<"P", "3">>),
     JStr(<<"r", "e", "f", "a", "c", "t", "o", "r", "i", "n", "g", " ", "i", "d", "e", "a">>),
     JStr(<<"S", "e", "c", "u", "r", "i", "t", "y">>),
     JStr(<<"t", "e", "s", "t", "i", "n", "g", " ", "s", "t", "y", "l", "e">>),
     JStr(<<"d", "o", "c", "u", "m", "e", "n", "t", "a", "t", "i", "o", "n">>),
     JStr(<<"C", "O", "D", "E">>),
     JStr(<<"c", "o", "d", "e", "s", "t", "y", "l", "e">>),
     JStr(<<" ", "c", "o", "d", "e">>),
     JStr(<<"h", "i", "g", "h", "e", "s", "t">>),
     JStr(<<"C", "r", "i", "t", "i", "c", "a", "l", " ", "b", "u", "g">>),
     JStr(<<"p", "e", "r", "f">>),
     JStr(<<"L", "O", "W">>),
     JStr(<<"c", "r", "i", "t", "i", "c", "a", "l">>),
     JStr(<<"H", "i", "g", "h", " ", "p", "r", "i", "o", "r", "i", "t", "y">>),
     JStr(<<"P", "0", " ", "b", "l", "o", "c", "k", "e", "r">>),
     JStr(<<"s", "e", "v", "-", "3">>),
     JStr(<<"m", "e", "d", "i", "u", "m">>),
     JStr(<<"M", "e", "d", "i", "u", "m">>),
     JStr(<<>>),
     JStr(<<"i", "n", "f", "o">>),
     JStr(<<"p", "1">>),
     JStr(<<"S", "E", "V", "1">>),
     JStr(<<"c", "o", "d", "e">>),
     JStr(<<"C", "o", "d", "e", " ", "f", "i", "x">>),
     JStr(<<"c", "o", "n", "c", "e", "p", "t", "u", "a", "l">>),
     JStr(<<"e", "x", "a", "m", "p", "l", "e">>),
     JStr(<<"s", "e", "c", "u", "r", "i", "t", "y", " ", "b", "u", "g">>),
     JStr(<<"B", "u", "g">>),
     JStr(<<"g", "e", "n", "e", "r", "a", "l">>),
     JStr(<<"s", "t", "y", "l", "e", "/", "d", "o", "c", "u", "m", "e", "n", "t", "a", "t", "i", "o", "n">>),
     JStr(<<"u", "n", "i", "t", " ", "t", "e", "s", "t", "i", "n", "g">>),
     JStr(<<"l", "o", "w", " ", "o", "r", " ", "c", "r", "i", "t", "i", "c", "a", "l">>),
     JStr(<<"v", "a", "l", "i", "d", "a", "t", "i", "o", "n">>),
     JStr(<<"p", "e", "r", "f", "o", "r", "m", "a", "n", "c", "e">>)}

\* the three rules of the loop body on one raw value
NormalizeValue(raw, order) ==
    [severity |-> normalize_severity(raw),
     category |-> normalize_category(raw, order),
     suggestion_type |-> normalize_suggestion_type(raw)]

\* the three rules on the three values of an earlier pass
NormalizeNormalized(n, order) ==
    [severity |-> normalize_severity(JStr(n.severity)),
     category |-> normalize_category(JStr(n.category), order),
     suggestion_type |-> normalize_suggestion_type(JStr(n.suggestion_type))]

\* the first pass, the set being iterated in some order
NormalizeOnce ==
    /\ raw_value # <<>> /\ norm_once = <<>>
    /\ \E order \in CategoryOrders : norm_once' = <<NormalizeValue(raw_value, order)>>
    /\ UNCHANGED <<raw_value, norm_again, post_vars, main_vars, resolve_vars, id_vars, validator_vars, parse_vars, refine_vars, map_vars>>

\* a pass over the values of the first pass, the set being iterated in some order
NormalizeAgain ==
    /\ norm_once # <<>> /\ norm_again = <<>>
    /\ \E order \in CategoryOrders : norm_again' = <<NormalizeNormalized(norm_once[1], order)>>
    /\ UNCHANGED <<raw_value, norm_once, post_vars, main_vars, resolve_vars, id_vars, validator_vars, parse_vars, refine_vars, map_vars>>

InitNormalize ==
    /\ raw_value \in RawValues
    /\ norm_once = <<>> /\ norm_again = <<>>
    /\ PostIdle
    /\ MainIdle
    /\ ResolveIdle
    /\ IdIdle /\ ValidatorIdle /\ ParseIdle /\ MapIdle /\ mpc = "idle" /\ RefineIdle /\ pc = "idle"

NextNormalize == NormalizeOnce \/ NormalizeAgain

SpecNormalize == InitNormalize /\ [][NextNormalize]_vars

----------------------------------------------------------------------------
(* resolve_model and the registry of models *)

P_gemini == <<"g", "e", "m", "i", "n", "i">>
P_claude == <<"c", "l", "a", "u", "d", "e">>
P_openai == <<"o", "p", "e", "n", "a", "i">>
P_anthropic == <<"a", "n", "t", "h", "r", "o", "p", "i", "c">>
P_google == <<"g", "o", "o", "g", "l", "e">>

Models_gemini ==
    <<[name |-> <<"g", "e", "m", "i", "n", "i", "-", "2", ".", "5", "-", "f", "l", "a", "s", "h">>,
       aliases |-> <<<<"g", "e", "m", "i", "n", "i", "-", "2", "-", "5", "-", "f", "l", "a", "s", "h">>,
                    <<"g", "e", "m", "i", "n", "i", "-", "f", "l", "a", "s", "h">>,
                    <<"f", "l", "a", "s", "h", "-", "2", ".", "5">>>>,
       is_default |-> TRUE],
      [name |-> <<"g", "e", "m", "i", "n", "i", "-", "2", ".", "5", "-", "p", "r", "o">>,
       aliases |-> <<<<"g", "e", "m", "i", "n", "i", "-", "2", "-", "5", "-", "p", "r", "o">>,
                    <<"g", "e", "m", "i", "n", "i", "-", "p", "r", "o">>,
                    <<"p", "r", "o", "-", "2", ".", "5">>>>,
       is_default |-> FALSE]>>

Models_claude ==
    <<[name |-> <<"c", "l", "a", "u", "d", "e", "-", "s", "o", "n", "n", "e", "t", "-", "4", "-", "5", "-", "2", "0", "2", "5", "0", "9", "2", "9">>,
       aliases |-> <<<<"c", "l", "a", "u", "d", "e", "-", "s", "o", "n", "n", "e", "t", "-", "4", ".", "5">>,
                    <<"c", "l", "a", "u", "d", "e", "-", "s", "o", "n", "n", "e", "t", "-", "4", "-", "5">>,
                    <<"s", "o", "n", "n", "e", "t", "-", "4", ".", "5">>,
                    <<"s", "o", "n", "n", "e", "t", "-", "4", "-", "5">>>>,
       is_default |-> TRUE],
      [name |-> <<"c", "l", "a", "u", "d", "e", "-", "s", "o", "n", "n", "e", "t", "-", "4", "-", "2", "0", "2", "5", "0", "5", "1", "4">>,
       aliases |-> <<<<"c", "l", "a", "u", "d", "e", "-", "s", "o", "n", "n", "e", "t", "-", "4">>,
                    <<"s", "o", "n", "n", "e", "t", "-", "4">>>>,
       is_default |-> FALSE]>>

Models_openai ==
    <<[name |-> <<"g", "p", "t", "-", "5", "-", "2", "0", "2", "5", "-", "0", "8", "-", "0", "7">>,
       aliases |-> <<<<"g", "p", "t", "-", "5">>,
                    <<"g", "p", "t", "5">>>>,
       is_default |-> TRUE],
      [name |-> <<"g", "p", "t", "-", "5", "-", "m", "i", "n", "i", "-", "2", "0", "2", "5", "-", "0", "8", "-", "0", "7">>,
       aliases |-> <<<<"g", "p", "t", "-", "5", "-", "m", "i", "n", "i">>,
                    <<"g", "p", "t", "5", "-", "m", "i", "n", "i">>,
                    <<"g", "p", "t", "-", "5", "m">>,
                    <<"g", "p", "t", "5", "m">>>>,
       is_default |-> FALSE]>>

\* AI_MODEL_REGISTRY
AI_MODEL_REGISTRY ==
    [p \in {P_gemini, P_claude, P_openai} |->
        IF p = P_gemini THEN Models_gemini
        ELSE IF p = P_claude THEN Models_claude ELSE Models_openai]

\* PROVIDER_ALIASES.get(provider.lower(), provider.lower())
normalize_provider(provider) ==
    IF Lower(provider) = P_anthropic THEN P_claude
    ELSE IF Lower(provider) = P_google THEN P_gemini
    ELSE Lower(provider)

\* the provider is a key of the registry
Supported(provider) == normalize_provider(provider) \in DOMAIN AI_MODEL_REGISTRY

\* get_models_for_provider, of a supported provider
get_models_for_provider(provider) == AI_MODEL_REGISTRY[normalize_provider(provider)]

\* get_default_model: the first model flagged is_default, else the first
get_default_model(provider) ==
    LET models == get_models_for_provider(provider)
        flagged == {k \in 1..Len(models) : models[k].is_default}
    IN  IF flagged = {} THEN models[1] ELSE models[Min(flagged)]

\* "Alias or fuzzy match": the four tests on one alias
AliasMatches(alias, requested_lower) ==
    \/ requested_lower = Lower(alias)
    \/ Contains(requested_lower, Lower(alias))
    \/ Contains(Lower(alias), requested_lower)

\* some alias of the model matches
AnyAliasMatches(model, requested_lower) ==
    \E a \in 1..Len(model.aliases) : AliasMatches(model.aliases[a], requested_lower)

\* what a call of resolve_model gives
Resolved(name) == [raised |-> FALSE, value |-> name]
ValueError == [raised |-> TRUE, value |-> <<"V", "a", "l", "u", "e", "E", "r", "r", "o", "r">>]

\* the two loops over the models of the provider
ResolveRequested(models, requested_lower) ==
    LET direct == {k \in 1..Len(models) : requested_lower = Lower(models[k].name)}
        fuzzy == {k \in 1..Len(models) : AnyAliasMatches(models[k], requested_lower)}
    IN  IF direct # {} THEN Resolved(models[Min(direct)].name)
        ELSE IF fuzzy # {} THEN Resolved(models[Min(fuzzy)].name)
        ELSE ValueError

\* resolve_model(provider, requested_model); requested_model is <<>> for
\* None and <<the name>> otherwise
resolve_model(provider, requested_model) ==
    IF ~Supported(provider) THEN ValueError
    ELSE IF requested_model # <<>> /\ requested_model[1] # <<>>
         THEN ResolveRequested(get_models_for_provider(provider),
                               Lower(requested_model[1]))
         ELSE Resolved(get_default_model(provider).name)

----------------------------------------------------------------------------
(* SpecPost: one call of post_inline_comment, one POST request per step *)

\* Python truth of an int or None argument
Truthy(n) == n # None /\ n # 0

\* a line code argument: <<>> stands for None, the key being absent in the issue
NoCode == <<>>

\* position['line_range'] is absent
NoRange == <<>>

\* the position of the first request
FirstPosition(line, start_line, end_line, start_line_code, end_line_code) ==
    IF Truthy(start_line) /\ Truthy(end_line) /\ start_line # end_line
    THEN IF start_line_code # NoCode /\ end_line_code # NoCode
         THEN [new_line |-> end_line,
               line_range |-> <<[start |-> start_line_code, end |-> end_line_code]>>]
         ELSE [new_line |-> start_line, line_range |-> NoRange]
    ELSE [new_line |-> IF Truthy(start_line) THEN start_line ELSE line,
          line_range |-> NoRange]

\* a retry that pops line_range and keeps new_line at end_line
FallbackAtEndLine(position, start_line) ==
    [position EXCEPT !.line_range = NoRange]

\* the position of the retry: line_range popped, new_line = start_line
FallbackPosition(position, start_line) ==
    [position EXCEPT !.line_range = NoRange, !.new_line = start_line]

\* what a POST request can give: a response below 400, a response from
\* 400 on (raise_for_status raises HTTPError), no response (requests.post
\* raises ConnectionError or Timeout)
RequestOutcomes == {"ok", "http_error", "network_error"}

\* the values of the line arguments and of the line code arguments
PostLines == {None, 0, 2, 4}
PostCodes == {NoCode, <<"c2">>, <<"c4">>}

\* the arguments of a call and whether mr_data holds diff_refs
PostArgs ==
    [line : {2, 4}, start_line : PostLines, end_line : PostLines,
     start_line_code : PostCodes, end_line_code : PostCodes,
     diff_refs : BOOLEAN]

\* the position the call builds first
BuiltPosition ==
    FirstPosition(post_args[1].line, post_args[1].start_line, post_args[1].end_line,
                  post_args[1].start_line_code, post_args[1].end_line_code)

\* mr_data['diff_refs'] raises before any request is sent
PostRaisesKeyError ==
    /\ ppc = "first" /\ ~post_args[1].diff_refs
    /\ post_result' = <<[raised |-> TRUE, value |-> "KeyError"]>>
    /\ ppc' = "ended"
    /\ UNCHANGED <<post_args, sent, norm_vars, main_vars, resolve_vars, id_vars, validator_vars, parse_vars, refine_vars, map_vars>>

\* the first request succeeds: return response.json()
PostFirstOk ==
    /\ ppc = "first" /\ post_args[1].diff_refs
    /\ sent' = <<[position |-> BuiltPosition, outcome |-> "ok"]>>
    /\ post_result' = <<[raised |-> FALSE, value |-> "response 1"]>>
    /\ ppc' = "ended"
    /\ UNCHANGED <<post_args, norm_vars, main_vars, resolve_vars, id_vars, validator_vars, parse_vars, refine_vars, map_vars>>

\* the first request fails: RequestException caught
PostFirstFails ==
    /\ ppc = "first" /\ post_args[1].diff_refs
    /\ \E outcome \in RequestOutcomes \ {"ok"} :
          sent' = <<[position |-> BuiltPosition, outcome |-> outcome]>>
    /\ ppc' = "failed"
    /\ UNCHANGED <<post_args, post_result, norm_vars, main_vars, resolve_vars, id_vars, validator_vars, parse_vars, refine_vars, map_vars>>

\* no line_range in the position: return None
PostGiveUp ==
    /\ ppc = "failed" /\ sent[1].position.line_range = NoRange
    /\ post_result' = <<[raised |-> FALSE, value |-> "None"]>>
    /\ ppc' = "ended"
    /\ UNCHANGED <<post_args, sent, norm_vars, main_vars, resolve_vars, id_vars, validator_vars, parse_vars, refine_vars, map_vars>>

\* the retry succeeds: return response.json()
PostRetryOk ==
    /\ ppc = "failed" /\ sent[1].position.line_range # NoRange
    /\ sent' = Append(sent, [position |-> FallbackPosition(sent[1].position,
                                                             post_args[1].start_line),
                              outcome |-> "ok"])
    /\ post_result' = <<[raised |-> FALSE, value |-> "response 2"]>>
    /\ ppc' = "ended"
    /\ UNCHANGED <<post_args, norm_vars, main_vars, resolve_vars, id_vars, validator_vars, parse_vars, refine_vars, map_vars>>

\* the retry fails: `except: pass`, then return None
PostRetryFails ==
    /\ ppc = "failed" /\ sent[1].position.line_range # NoRange
    /\ \E outcome \in RequestOutcomes \ {"ok"} :
          sent' = Append(sent, [position |-> FallbackPosition(sent[1].position,
                                                               post_args[1].start_line),
                                outcome |-> outcome])
    /\ post_result' = <<[raised |-> FALSE, value |-> "None"]>>
    /\ ppc' = "ended"
    /\ UNCHANGED <<post_args, norm_vars, main_vars, resolve_vars, id_vars, validator_vars, parse_vars, refine_vars, map_vars>>

InitPost ==
    /\ \E args \in PostArgs : post_args = <<args>>
    /\ sent = <<>> /\ post_result = <<>> /\ ppc = "first"
    /\ NormIdle
    /\ MainIdle
    /\ ResolveIdle
    /\ IdIdle /\ ValidatorIdle /\ ParseIdle /\ MapIdle /\ mpc = "idle" /\ RefineIdle /\ pc = "idle"

NextPost ==
    \/ PostRaisesKeyError \/ PostFirstOk \/ PostFirstFails
    \/ PostGiveUp \/ PostRetryOk \/ PostRetryFails

SpecPost == InitPost /\ [][NextPost]_vars

----------------------------------------------------------------------------
(* SpecMain: main from `issues = review_data.get('issues', [])` to its return, *)
(* one issue of the list per step *)

\* Python truth of a JSON value
JTruthy(value) ==
    CASE value.t = "null" -> FALSE
      [] value.t = "bool" -> value.v
      [] value.t = "num" -> value.v # 0
      [] value.t = "str" -> value.v # <<>>
      [] value.t = "list" -> value.v # <<>>
      [] value.t = "dict" -> DOMAIN value.v # {}

\* an issue as main reads it: issue.get(key) of the five keys, JNull for a
\* key that is absent or holds None; `issue` stands for issue.get('issue',
\* 'Unknown issue'), JNull when the key holds None
MainIssue(file, start_line, line, end_line, summary) ==
    [file |-> file, start_line |-> start_line, line |-> line,
     end_line |-> end_line, issue |-> summary]

FileA == JStr(<<"a", ".", "p", "y">>)
Summary == JStr(<<"b", "u", "g">>)

\* the issues of the lists main is given
MainIssues ==
    { MainIssue(FileA, JNum(2), JNull, JNull, Summary),
      MainIssue(FileA, JNum(2), JNull, JNum(4), Summary),
      MainIssue(JNull, JNum(2), JNull, JNull, Summary),
      MainIssue(FileA, JNull, JNull, JNum(4), Summary),
      MainIssue(FileA, JNull, JNum(3), JNull, Summary),
      MainIssue(FileA, JNum(0), JNum(3), JNull, Summary),
      MainIssue(FileA, JNum(0), JNull, JNull, Summary),
      MainIssue(FileA, JNum(0 - 1), JNull, JNull, Summary),
      MainIssue(FileA, JNum(2), JNull, JNum(1), Summary),
      MainIssue(FileA, JNum(2), JNull, JNum(0), Summary),
      MainIssue(FileA, JNull, JStr(<<"3">>), JNull, Summary),
      MainIssue(FileA, JNum(2), JNull, JNull, JNull),
      MainIssue(FileA, JNull, JStr(<<"3">>), JNull, JNull) }

\* start_line after `if not start_line: start_line = issue.get('line')`
StartLineOf(issue) ==
    IF JTruthy(issue.start_line) THEN issue.start_line ELSE issue.line

\* end_line after `if not end_line: end_line = start_line`
EndLineOf(issue) ==
    IF JTruthy(issue.end_line) THEN issue.end_line ELSE StartLineOf(issue)

\* `if not file_path or not start_line`
NoFileOrLine(issue) ==
    IF JTruthy(issue.file) THEN ~JTruthy(StartLineOf(issue)) ELSE TRUE

\* `start_line <= 0 or end_line < start_line` raises TypeError
CompareRaises(issue) ==
    IF StartLineOf(issue).t # "num" THEN TRUE
    ELSE IF StartLineOf(issue).v <= 0 THEN FALSE
    ELSE EndLineOf(issue).t # "num"

\* a range test that reads start_line alone
BadRangeStartOnly(issue) == StartLineOf(issue).v <= 0

\* `start_line <= 0 or end_line < start_line`
BadRange(issue) ==
    IF StartLineOf(issue).v <= 0 THEN TRUE
    ELSE EndLineOf(issue).v < StartLineOf(issue).v

\* issue.get('issue', ...)[:50] raises TypeError, and so does the [:60]
\* of the handler
SliceRaises(issue) == issue.issue.t \notin {"str", "list"}

\* the try block raises before post_inline_comment is called
RaisesBeforePost(issue) ==
    IF NoFileOrLine(issue) THEN FALSE
    ELSE IF CompareRaises(issue) THEN TRUE
    ELSE ~BadRange(issue) /\ SliceRaises(issue)

\* the try block reaches the call of post_inline_comment
ReachesPost(issue) ==
    /\ ~NoFileOrLine(issue) /\ ~CompareRaises(issue)
    /\ ~BadRange(issue) /\ ~SliceRaises(issue)

\* the arguments file_path, line, start_line, end_line of the call
PostCall(issue) ==
    [file_path |-> issue.file, line |-> EndLineOf(issue).v,
     start_line |-> StartLineOf(issue).v, end_line |-> EndLineOf(issue).v]

\* the issue the loop takes next
NextIssue == main_issues[Len(main_log) + 1]

\* the loop is running and has an issue to take
InLoop == status_code = 0 /\ Len(main_log) < Len(main_issues)

\* the record of one pass of the loop
Pass(issue, step, calls) == [issue |-> issue, step |-> step, calls |-> calls]

\* "Skipping issue without file/line"
MainSkipNoFileOrLine ==
    /\ InLoop /\ NoFileOrLine(NextIssue)
    /\ main_log' = Append(main_log, Pass(NextIssue, "no_file_or_line", <<>>))
    /\ failed_count' = failed_count + 1
    /\ UNCHANGED <<main_issues, posted_count, status_code, norm_vars, post_vars, resolve_vars, id_vars, validator_vars, parse_vars, refine_vars, map_vars>>

\* "Skipping issue with invalid line range"
MainSkipBadRange ==
    /\ InLoop /\ ~NoFileOrLine(NextIssue) /\ ~CompareRaises(NextIssue)
    /\ BadRange(NextIssue)
    /\ main_log' = Append(main_log, Pass(NextIssue, "bad_range", <<>>))
    /\ failed_count' = failed_count + 1
    /\ UNCHANGED <<main_issues, posted_count, status_code, norm_vars, post_vars, resolve_vars, id_vars, validator_vars, parse_vars, refine_vars, map_vars>>

\* post_inline_comment returns the discussion: `if result: posted_count += 1`
MainPosted ==
    /\ InLoop /\ ReachesPost(NextIssue)
    /\ main_log' = Append(main_log, Pass(NextIssue, "posted", <<PostCall(NextIssue)>>))
    /\ posted_count' = posted_count + 1
    /\ UNCHANGED <<main_issues, failed_count, status_code, norm_vars, post_vars, resolve_vars, id_vars, validator_vars, parse_vars, refine_vars, map_vars>>

\* post_inline_comment returns None: `else: failed_count += 1`
MainPostReturnsNone ==
    /\ InLoop /\ ReachesPost(NextIssue)
    /\ main_log' = Append(main_log, Pass(NextIssue, "post_none", <<PostCall(NextIssue)>>))
    /\ failed_count' = failed_count + 1
    /\ UNCHANGED <<main_issues, posted_count, status_code, norm_vars, post_vars, resolve_vars, id_vars, validator_vars, parse_vars, refine_vars, map_vars>>

\* post_inline_comment raises: `except Exception`, failed_count += 1, continue
MainPostRaises ==
    /\ InLoop /\ ReachesPost(NextIssue)
    /\ main_log' = Append(main_log, Pass(NextIssue, "post_raised", <<PostCall(NextIssue)>>))
    /\ failed_count' = failed_count + 1
    /\ UNCHANGED <<main_issues, posted_count, status_code, norm_vars, post_vars, resolve_vars, id_vars, validator_vars, parse_vars, refine_vars, map_vars>>

\* the try block raises before the call and the handler prints the issue
MainIssueRaises ==
    /\ InLoop /\ RaisesBeforePost(NextIssue) /\ ~SliceRaises(NextIssue)
    /\ main_log' = Append(main_log, Pass(NextIssue, "raised", <<>>))
    /\ failed_count' = failed_count + 1
    /\ UNCHANGED <<main_issues, posted_count, status_code, norm_vars, post_vars, resolve_vars, id_vars, validator_vars, parse_vars, refine_vars, map_vars>>

\* the try block raises and so does the handler's [:60]: the outer
\* `except Exception` returns statusCode 500
MainHandlerRaises ==
    /\ InLoop /\ RaisesBeforePost(NextIssue) /\ SliceRaises(NextIssue)
    /\ main_log' = Append(main_log, Pass(NextIssue, "handler_raised", <<>>))
    /\ status_code' = 500
    /\ UNCHANGED <<main_issues, posted_count, failed_count, norm_vars, post_vars, resolve_vars, id_vars, validator_vars, parse_vars, refine_vars, map_vars>>

\* the loop is over: return statusCode 200 with the three counts
MainReturns ==
    /\ status_code = 0 /\ Len(main_log) = Len(main_issues)
    /\ status_code' = 200
    /\ UNCHANGED <<main_issues, main_log, posted_count, failed_count, norm_vars, post_vars, resolve_vars, id_vars, validator_vars, parse_vars, refine_vars, map_vars>>

InitMain ==
    /\ \E n \in 0..MaxReviewIssues : main_issues \in [1..n -> MainIssues]
    /\ main_log = <<>> /\ posted_count = 0 /\ failed_count = 0 /\ status_code = 0
    /\ NormIdle
    /\ PostIdle
    /\ ResolveIdle
    /\ IdIdle /\ ValidatorIdle /\ ParseIdle /\ MapIdle /\ mpc = "idle" /\ RefineIdle /\ pc = "idle"

NextMain ==
    \/ MainSkipNoFileOrLine \/ MainSkipBadRange
    \/ MainPosted \/ MainPostReturnsNone \/ MainPostRaises
    \/ MainIssueRaises \/ MainHandlerRaises \/ MainReturns

SpecMain == InitMain /\ [][NextMain]_vars

----------------------------------------------------------------------------
(* SpecResolve: one call of resolve_model *)

\* the providers given
Providers == {P_gemini, P_claude, P_openai, P_anthropic, P_google, <<"C", "l", "a", "u", "d", "e">>, <<"a", "z", "u", "r", "e">>}

\* every model name and alias of the registry
RegisteredNames ==
    UNION { {AI_MODEL_REGISTRY[p][k].name} \cup
            {AI_MODEL_REGISTRY[p][k].aliases[a] : a \in 1..Len(AI_MODEL_REGISTRY[p][k].aliases)}
          : p \in DOMAIN AI_MODEL_REGISTRY, k \in 1..2 }

\* the names requested: none, the empty name, the registered names as
\* written and in upper case, and names that are not registered
RequestedModels ==
    {<<>>, <<<<>>>>} \cup {<<n>> : n \in RegisteredNames}
    \cup {<<Upper(n)>> : n \in RegisteredNames}
    \cup {<<<<"l", "l", "a", "m", "a", "-", "3">>>>, <<<<"4">>>>, <<<<"g", "p", "t", "-", "5", "-", "t", "u", "r", "b", "o">>>>}

\* the call
Resolve ==
    /\ given_provider # <<>> /\ resolved = <<>>
    /\ resolved' = <<resolve_model(given_provider[1], given_model)>>
    /\ UNCHANGED <<given_provider, given_model, norm_vars, post_vars, main_vars, id_vars, validator_vars, parse_vars, refine_vars, map_vars>>

InitResolve ==
    /\ \E p \in Providers : given_provider = <<p>>
    /\ given_model \in RequestedModels
    /\ resolved = <<>>
    /\ NormIdle
    /\ PostIdle
    /\ MainIdle
    /\ IdIdle /\ ValidatorIdle /\ ParseIdle /\ MapIdle /\ mpc = "idle" /\ RefineIdle /\ pc = "idle"

NextResolve == Resolve

SpecResolve == InitResolve /\ [][NextResolve]_vars

----------------------------------------------------------------------------
(* Properties of _refine_code_fixes, checked under Spec *)

\* the positions of the issues handled so far
Handled == 1..Len(issues)

\* a code_fix that is a non-empty string
HasText(code_fix) == code_fix.kind = "str" /\ code_fix.text # <<>>

\* end_line - start_line + 1 of an issue
LinesToReplace(issue) == EndLine(issue) - issue.start_line + 1

\* the number of lines of the replacement text
FixLines(issue) == Len(Split(issue.code_fix.text))

\* the refiner changed issue i from 'code' to 'conceptual'
WasDowngraded(i) ==
    /\ issues[i].suggestion_type = "code"
    /\ refined_issues[i].suggestion_type = "conceptual"

\* the mapped original lines of an issue's range
OriginalOf(issue) ==
    OriginalLines(LineMapOf(file_line_maps, issue.file), issue.start_line, EndLine(issue))

\* C1: an issue that enters as 'code' with a non-empty replacement of fewer
\* lines than end_line - start_line + 1 leaves the refiner as 'conceptual'.
C1_NoSilentDeletion ==
    /\ Len(refined_issues) = Len(issues)
    /\ \A i \in Handled :
          (/\ issues[i].suggestion_type = "code"
           /\ HasText(issues[i].code_fix)
           /\ FixLines(issues[i]) < LinesToReplace(issues[i]))
          => refined_issues[i].suggestion_type = "conceptual"

\* C1 witness: a returned list with such an issue, downgraded
C1_Witness ==
    /\ pc = "done"
    /\ \E i \in Handled :
          /\ issues[i].suggestion_type = "code"
          /\ HasText(issues[i].code_fix)
          /\ FixLines(issues[i]) = 2
          /\ LinesToReplace(issues[i]) = 3
          /\ refined_issues[i].suggestion_type = "conceptual"

\* C2: every issue the refiner changed from 'code' to 'conceptual' has no
\* replacement text left in the returned issue.
C2_DowngradeClearsFix ==
    \A i \in Handled : WasDowngraded(i) => ~HasText(refined_issues[i].code_fix)

\* downgraded to 'conceptual'.
C5_UnmappedDowngraded ==
    \A i \in 1..Len(refined_issues) :
        (issues[i].suggestion_type = "code" /\ OriginalOf(issues[i]) = <<>>)
        => refined_issues[i].suggestion_type = "conceptual"

\* C6: the downgrade count equals the number of issues changed from 'code' to
\* 'conceptual'.
C6_CountIsDowngrades ==
    conceptual_conversions = Cardinality({i \in 1..Len(refined_issues) : WasDowngraded(i)})

\* the net count (opens minus closes) of a bracket pair in a text
Net(text, open, close) == Count(text, open) - Count(text, close)

\* the tokens a replaced range must not start with
OrphanTokens ==
    { <<")">>, <<"}">>, <<"]">>, <<";">>, <<",">>, <<":">>,
      <<"e", "l", "s", "e">>, <<"c", "a", "t", "c", "h">>,
      <<"f", "i", "n", "a", "l", "l", "y">>, <<"?", ".">> }

\* C7: an issue that leaves as 'code' with at least one mapped original line
\* has the net bracket counts of the joined mapped lines in its replacement,
\* and its first mapped line, trimmed, starts with no orphan token.
C7_SurvivorsValidated ==
    \A i \in 1..Len(refined_issues) :
        (refined_issues[i].suggestion_type = "code" /\ OriginalOf(issues[i]) # <<>>)
        => LET original == Join(OriginalOf(issues[i]))
               fix == refined_issues[i].code_fix.text
               first == Strip(OriginalOf(issues[i])[1])
           IN  /\ Net(original, "{", "}") = Net(fix, "{", "}")
               /\ Net(original, "[", "]") = Net(fix, "[", "]")
               /\ Net(original, "(", ")") = Net(fix, "(", ")")
               /\ \A t \in OrphanTokens : ~StartsWith(first, t)

\* C7 witness: a survivor over two mapped lines that hold brackets
C7_Witness ==
    /\ pc = "done"
    /\ \E i \in Handled :
          /\ refined_issues[i].suggestion_type = "code"
          /\ Len(OriginalOf(issues[i])) = 2
          /\ Count(Join(OriginalOf(issues[i])), "{") = 1

\* a rule other than the size rules rejects the code suggestion
OtherRuleRejects(issue) ==
    LET lm == LineMapOf(file_line_maps, issue.file)
        fix == issue.code_fix.text
        original == OriginalOf(issue)
    IN  \/ ~HasText(issue.code_fix)
        \/ FixLines(issue) < LinesToReplace(issue)
        \/ /\ FixLines(issue) # LinesToReplace(issue)
           /\ \/ original = <<>>
              \/ ~_is_line_count_change_valid(Join(original), fix,
                                              LinesToReplace(issue), FixLines(issue)).ok
        \/ DOMAIN lm # {} /\ IndentationMismatch(lm, issue.start_line, Split(fix))
        \/ original # <<>> /\ StructureRejects(original, fix, issue.start_line, EndLine(issue))

\* C8: no issue of more than 10 lines leaves as 'code'; a code suggestion of
\* 8 to 10 lines is downgraded only when another rule rejects it.
C8_SizePolicy ==
    \A i \in 1..Len(refined_issues) :
        /\ LinesToReplace(issues[i]) > MAX_SUGGESTION_LINES
              => refined_issues[i].suggestion_type # "code"
        /\ (/\ issues[i].suggestion_type = "code"
            /\ LinesToReplace(issues[i]) > WARN_SUGGESTION_LINES
            /\ LinesToReplace(issues[i]) <= MAX_SUGGESTION_LINES
            /\ ~OtherRuleRejects(issues[i]))
              => refined_issues[i].suggestion_type = "code"

\* C8 witness: an 8-line suggestion on mapped lines kept as 'code' and an
\* 11-line suggestion that passes the other rules, downgraded
C8_Witness ==
    /\ pc = "done"
    /\ \E i, j \in Handled :
          /\ LinesToReplace(issues[i]) = 8
          /\ OriginalOf(issues[i]) # <<>>
          /\ refined_issues[i].suggestion_type = "code"
          /\ LinesToReplace(issues[j]) = 11
          /\ issues[j].suggestion_type = "code"
          /\ ~OtherRuleRejects(issues[j])
          /\ refined_issues[j].suggestion_type = "conceptual"

----------------------------------------------------------------------------
(* Properties of _build_new_file_maps, checked under SpecMap *)

\* P1: '@@ -10,3 +10,4 @@', a context line, a removed line, two added lines
P1Diff == <<HdrP1, CtxC, RemR, AddA, AddA>>

\* C9 as stated: the P1 diff yields exactly 4 records starting at new line 10,
\* and the first added line has the removed line's old line number.
C9_P1FourRecords ==
    diff = P1Diff
    => /\ Cardinality(DOMAIN line_map) = 4
       /\ Min(DOMAIN line_map) = 10
       /\ line_map[11].old_line = 11

\* C9 amended: the P1 diff yields exactly 3 records, at new lines 10, 11 and
\* 12; the removed line adds no record, and the first added line has the
\* removed line's old line number, 11.
C9_P1ThreeRecords ==
    /\ diff = SubSeq(P1Diff, 1, 2)
          => DOMAIN line_map = {10} /\ Len(emitted) = 1
    /\ diff = SubSeq(P1Diff, 1, 3)
          => DOMAIN line_map = {10} /\ Len(emitted) = 1 /\ removed_old_lines = <<11>>
    /\ diff = P1Diff
          => /\ DOMAIN line_map = {10, 11, 12}
             /\ Len(emitted) = 3
             /\ line_map[10].old_line = 10 /\ line_map[10].content = <<"c">>
             /\ line_map[11].old_line = 11 /\ line_map[11].content = <<"a">>
             /\ line_map[12].old_line = 0 /\ line_map[12].content = <<"a">>

\* C9 witness: the P1 diff read to its end and stored
C9_Witness ==
    /\ mpc = "done"
    /\ diff = P1Diff
    /\ MapPath \in DOMAIN file_line_maps
    /\ Cardinality(DOMAIN file_line_maps[MapPath]) = 3

\* a diff line is a hunk header of the model
IsHeaderLine(line) == line \in {HdrP1, HdrOne}

\* C10, one pass of the loop over a line read after a hunk header: a '-' line
\* writes no record and pushes the current old line number; a '+' line gets the
\* oldest pending number, or 0 when none is pending, and 0 right after a context
\* line or a header; a context line and a header empty the pending queue.
C10_Pass ==
    LET line == diff'[Len(diff')]
        last == emitted'[Len(emitted')]
        in_hunk == current_new_line # None
    IN  Len(diff') = Len(diff) + 1 =>
          /\ (in_hunk /\ ~IsHeaderLine(line) /\ Head(line) = "-")
                => /\ line_map' = line_map
                   /\ emitted' = emitted
                   /\ removed_old_lines' = Append(removed_old_lines, current_old_line)
          /\ (in_hunk /\ ~IsHeaderLine(line) /\ Head(line) = "+")
                => /\ Len(emitted') = Len(emitted) + 1
                   /\ last.old_line = IF removed_old_lines = <<>> THEN 0
                                      ELSE Head(removed_old_lines)
                   /\ removed_old_lines' = IF removed_old_lines = <<>> THEN <<>>
                                           ELSE Tail(removed_old_lines)
                   /\ (diff # <<>> /\ (IsHeaderLine(diff[Len(diff)])
                                       \/ Head(diff[Len(diff)]) = " "))
                         => last.old_line = 0
          /\ (IsHeaderLine(line) \/ (in_hunk /\ Head(line) = " "))
                => removed_old_lines' = <<>>

\* C10: removal/addition pairing is FIFO and hunk-local
C10_FifoHunkLocal == [][C10_Pass]_vars

\* C10 witness: two removals, then two additions paired in removal order
C10_Witness ==
    /\ diff = <<HdrP1, RemR, RemR, AddA, AddA>>
    /\ emitted = <<[new_line |-> 10, old_line |-> 10], [new_line |-> 11, old_line |-> 11]>>
    /\ removed_old_lines = <<>>

\* the positions in the diff of the hunk headers read so far
HeaderPositions == {p \in 1..Len(diff) : IsHeaderLine(diff[p])}

\* the positions in the diff of the lines that wrote a record
RecordPositions ==
    {p \in 1..Len(diff) :
        /\ ~IsHeaderLine(diff[p])
        /\ Head(diff[p]) \in {"+", " "}
        /\ \E h \in HeaderPositions : h < p}

\* the position in the diff of the line that wrote the k-th record
PositionOf(k) ==
    CHOOSE p \in RecordPositions : Cardinality({q \in RecordPositions : q <= p}) = k

\* the hunk (counted by its header) the k-th record was written in
HunkOf(k) == Cardinality({h \in HeaderPositions : h < PositionOf(k)})

\* C11: the new-file line numbers of the records of one file are strictly
\* increasing in the order the records are written, and no record overwrites
\* an earlier one, for any sequence of hunk headers and '+', '-', ' ' lines.
C11_NewLinesIncreasing ==
    /\ \A i, j \in 1..Len(emitted) :
          i < j => emitted[i].new_line < emitted[j].new_line
    /\ Cardinality(DOMAIN line_map) = Len(emitted)

\* C12 as stated: within one hunk the old_line values of the records are
\* non-decreasing in the order the records are written.
C12_OldLinesNonDecreasing ==
    \A i, j \in 1..Len(emitted) :
        (i < j /\ HunkOf(i) = HunkOf(j)) => emitted[i].old_line <= emitted[j].old_line

\* C12 amended: within one hunk the old_line values other than 0 are
\* non-decreasing in the order the records are written; old_line is 0 only on
\* records of '+' lines (pure insertions), wherever they stand in the hunk.
C12_PairedOldLinesNonDecreasing ==
    /\ Len(emitted) = Cardinality(RecordPositions)
    /\ \A i, j \in 1..Len(emitted) :
          (/\ i < j
           /\ HunkOf(i) = HunkOf(j)
           /\ emitted[i].old_line # 0
           /\ emitted[j].old_line # 0)
          => emitted[i].old_line <= emitted[j].old_line
    /\ \A i \in 1..Len(emitted) :
          emitted[i].old_line = 0 => Head(diff[PositionOf(i)]) = "+"

\* C12 witness: one hunk whose records have the old lines 10, 11 and then 0:
\* a context line, a replaced line and a pure insertion
C12_Witness ==
    /\ diff = <<HdrP1, CtxC, RemR, AddA, AddA>>
    /\ HunkOf(1) = HunkOf(3)
    /\ emitted[1].old_line = 10
    /\ emitted[2].old_line = 11
    /\ emitted[3].old_line = 0

----------------------------------------------------------------------------
(* Properties of the line code functions, checked under SpecLineId *)

\* the (path, old_line, new_line) of the i-th computation
TripleOf(i) == <<triples[i].path, triples[i].old_line, triples[i].new_line>>

\* without an old_line gives the mapper's code for old_line 0.
C14_MapperEqualsClient ==
    \A i \in 1..Len(triples) :
        /\ line_codes[i].mapper = line_codes[i].client
        /\ line_codes[i].client
              = <<Sha1(LineCodeBase(triples[i].path, triples[i].old_line, triples[i].new_line))>>
                   \o <<"_">> \o IntText(triples[i].old_line)
                   \o <<"_">> \o IntText(triples[i].new_line)

\* C14 witness: one computation with different old and new lines and one
\* where the client is given no old line
C14_Witness ==
    /\ Len(triples) = 2
    /\ triples[1].old_line = 12 /\ triples[1].new_line = 21 /\ ~triples[1].absent
    /\ triples[2].absent /\ triples[2].old_line = 0 /\ triples[2].new_line = 1
    /\ line_codes[2].client = line_codes[2].mapper

----------------------------------------------------------------------------
(* The end-to-end scenario, checked under Spec *)

\* the issue of the scenario: a.py lines 1..1, kind 'code', 'new line fixed'
IsScenarioIssue(issue) ==
    /\ issue.file = "a.py"
    /\ issue.start_line = 1
    /\ issue.end_line = 1
    /\ issue.suggestion_type = "code"
    /\ issue.code_fix = StrFix(NewLineFixed)

\* the line_id of ('a.py', 1, 1), written out
LineIdA11 ==
    <<Sha1(<<"a", ".", "p", "y", "_", "1", "_", "1">>), "_", "1", "_", "1">>

\* C15: with the scenario's diff of a.py the line map has new line 1 with
\* old_line 1 and content 'new line', and the scenario's issue leaves the
\* refiner still 'code' with line_code_start and line_code_end both the
\* line_id of ('a.py', 1, 1).
C15_Scenario ==
    (changes = ChangesScenario /\ pc # "start") =>
       /\ "a.py" \in DOMAIN file_line_maps
       /\ 1 \in DOMAIN file_line_maps["a.py"]
       /\ file_line_maps["a.py"][1].old_line = 1
       /\ file_line_maps["a.py"][1].content = NewLine
       /\ \A i \in 1..Len(refined_issues) :
             IsScenarioIssue(issues[i]) =>
                /\ refined_issues[i].suggestion_type = "code"
                /\ refined_issues[i].code_fix = StrFix(NewLineFixed)
                /\ refined_issues[i].line_code_start = <<LineIdA11>>
                /\ refined_issues[i].line_code_end = <<LineIdA11>>

\* C15 witness: the scenario's issue refined against the scenario's diff
C15_Witness ==
    /\ changes = ChangesScenario
    /\ pc = "done"
    /\ Len(issues) = 1
    /\ IsScenarioIssue(issues[1])
    /\ refined_issues[1].suggestion_type = "code"
    /\ DOMAIN file_line_maps["a.py"] = {1, 2}

----------------------------------------------------------------------------
(* Further properties of _refine_code_fixes, checked under Spec *)

\* C22: every handled issue, of whatever kind, whose file has a line map
\* and whose start_line is a mapped new line leaves the refiner with
\* line_code_start the line_id of the start record and line_code_end the
\* line_id of the end_line record, or of the start record when end_line is
\* not mapped; and no issue has line_code_start without line_code_end.
C22_LineCodesAttached ==
    \A i \in 1..Len(refined_issues) :
        LET lm == LineMapOf(file_line_maps, issues[i].file)
            start_line == issues[i].start_line
            end_line == EndLine(issues[i])
            end_record == IF end_line \in DOMAIN lm THEN end_line ELSE start_line
        IN  /\ start_line \in DOMAIN lm =>
                  /\ refined_issues[i].line_code_start = <<lm[start_line].line_code>>
                  /\ refined_issues[i].line_code_end = <<lm[end_record].line_code>>
            /\ refined_issues[i].line_code_start # <<>> =>
                  refined_issues[i].line_code_end # <<>>

\* C22 witness: an 'example' issue whose end_line is not mapped got the
\* start record's line_id twice, and a code suggestion got its line_id
C22_Witness ==
    /\ pc = "done"
    /\ Len(refined_issues) = 2
    /\ issues[1].suggestion_type = "example"
    /\ issues[1].end_line = 9
    /\ refined_issues[1].line_code_start # <<>>
    /\ refined_issues[1].line_code_end = refined_issues[1].line_code_start
    /\ issues[2].suggestion_type = "code"
    /\ issues[2].end_line = 3
    /\ refined_issues[2].line_code_start # <<>>
    /\ refined_issues[2].line_code_end # refined_issues[2].line_code_start

\* a rule other than the indentation rule downgrades the code suggestion
NonIndentRuleRejects(issue) ==
    LET fix == issue.code_fix.text
        original == OriginalOf(issue)
    IN  \/ ~HasText(issue.code_fix)
        \/ FixLines(issue) < LinesToReplace(issue)
        \/ /\ FixLines(issue) # LinesToReplace(issue)
           /\ \/ original = <<>>
              \/ ~_is_line_count_change_valid(Join(original), fix,
                                              LinesToReplace(issue), FixLines(issue)).ok
        \/ LinesToReplace(issue) > MAX_SUGGESTION_LINES
        \/ original # <<>> /\ StructureRejects(original, fix, issue.start_line, EndLine(issue))

\* some replacement line that stands against a line of start_line..end_line
\* has other leading whitespace than that line in the line map
InRangeIndentMismatch(issue) ==
    LET lm == LineMapOf(file_line_maps, issue.file)
        fix_lines == Split(issue.code_fix.text)
    IN  \E idx \in 0..(Len(fix_lines) - 1) :
            /\ issue.start_line + idx <= EndLine(issue)
            /\ (issue.start_line + idx) \in DOMAIN lm
            /\ _leading_whitespace(lm[issue.start_line + idx].content)
                  # _leading_whitespace(fix_lines[idx + 1])

\* C23: a code suggestion that no other rule rejects is downgraded only
\* when a replacement line inside start_line..end_line differs in leading
\* whitespace from its mapped original line; a replacement line beyond
\* end_line is compared with no line of the file.
C23_IndentOnlyInRange ==
    \A i \in 1..Len(refined_issues) :
        (WasDowngraded(i) /\ ~NonIndentRuleRejects(issues[i]))
            => InRangeIndentMismatch(issues[i])

\* C24: a code suggestion whose code_fix is the empty string, on a line
\* or a range start_line..end_line, leaves the refiner still 'code' and
\* format_inline_comment renders it as a deletion suggestion that removes
\* all end_line - start_line + 1 lines.
C24_DeletionSupported ==
    \A i \in 1..Len(refined_issues) :
        (/\ issues[i].suggestion_type = "code"
         /\ issues[i].code_fix = StrFix(<<>>)
         /\ issues[i].start_line >= 1
         /\ LinesToReplace(issues[i]) >= 1)
        => /\ refined_issues[i].suggestion_type = "code"
           /\ format_inline_comment(refined_issues[i])
                 = DeletionBlock(LinesToReplace(issues[i]))

\* the issue passes the rules that `continue` before the size rules: it is
\* a code suggestion with a replacement text of not fewer lines than its
\* range, and a change of line count was found valid
ReachesGuard(issue) ==
    /\ issue.suggestion_type = "code" /\ HasText(issue.code_fix)
    /\ ~TooFewLines(FixLines(issue), LinesToReplace(issue))
    /\ \/ FixLines(issue) = LinesToReplace(issue)
       \/ /\ OriginalOf(issue) # <<>>
          /\ _is_line_count_change_valid(Join(OriginalOf(issue)), issue.code_fix.text,
                                         LinesToReplace(issue), FixLines(issue)).ok

\* C29: with MAX_SUGGESTION_LINES = 10 every issue that reaches the
\* function-level rule (15 lines or more replaced by 10 lines or more) is
\* over the hard limit, which has set it to 'conceptual' before; the rule
\* never changes the suggestion_type of a returned issue.
C29_GuardNeverDecides ==
    \A i \in 1..Len(refined_issues) :
        (ReachesGuard(issues[i])
         /\ FunctionLevel(LinesToReplace(issues[i]), FixLines(issues[i])))
        => /\ OverMax(LinesToReplace(issues[i]))
           /\ refined_issues[i].suggestion_type = "conceptual"

\* C29 witness: 15 lines replaced by 15 lines, both rules hold, downgraded
C29_Witness ==
    \E i \in 1..Len(refined_issues) :
        /\ ReachesGuard(issues[i])
        /\ LinesToReplace(issues[i]) = 15 /\ FixLines(issues[i]) = 15
        /\ FunctionLevel(15, 15) /\ OverMax(15)
        /\ WasDowngraded(i)

----------------------------------------------------------------------------
(* Properties of the structural validators, checked under SpecValidators *)

\* the opening and closing character of each bracket type
BracketPairs == {<<"{", "}">>, <<"[", "]">>, <<"(", ")">>}

\* the replacement has fewer of `fewer` than the original and at least as
\* many of `kept`
RemovesOneSide(fewer, kept) ==
    /\ Count(given_replacement, fewer) < Count(given_original, fewer)
    /\ Count(given_replacement, kept) >= Count(given_original, kept)

\* some bracket type loses closing brackets and keeps its opening ones, or
\* the same with opening and closing swapped
AsymmetricRemoval ==
    \E b \in BracketPairs : RemovesOneSide(b[2], b[1]) \/ RemovesOneSide(b[1], b[2])

\* the verdict of _detect_bracket_side_mismatch is in
SideReturned ==
    verdict # <<>> /\ verdict[1].fn = "_detect_bracket_side_mismatch"

\* C16: _detect_bracket_side_mismatch reports a mismatch exactly for the
\* pairs with an asymmetric removal, its message names a bracket type that is
\* removed asymmetrically and the number removed, and for 'if (x) { y(); }'
\* replaced by 'if (x) { y(); ' it names one closing curly bracket.
C16_SideMismatch ==
    SideReturned =>
       LET r == verdict[1].result
       IN  /\ r.has_mismatch <=> AsymmetricRemoval
           /\ ~r.has_mismatch => r.msg = <<>>
           /\ r.has_mismatch =>
                 \E b \in BracketPairs :
                    \/ /\ RemovesOneSide(b[2], b[1])
                       /\ r.msg[3] = "closing" /\ r.msg[4] = b[2] /\ r.msg[6] = b[1]
                       /\ r.msg[2] = Count(given_original, b[2]) - Count(given_replacement, b[2])
                    \/ /\ RemovesOneSide(b[1], b[2])
                       /\ r.msg[3] = "opening" /\ r.msg[4] = b[1] /\ r.msg[6] = b[2]
                       /\ r.msg[2] = Count(given_original, b[1]) - Count(given_replacement, b[1])
           /\ (given_original = IfBlock /\ given_replacement = IfBlockCut) =>
                 /\ r.has_mismatch
                 /\ r.msg[2] = 1 /\ r.msg[4] = "}" /\ r.msg[6] = "{"

\* C16 witness: the spec's example, reported
C16_Witness ==
    /\ SideReturned
    /\ given_original = IfBlock
    /\ given_replacement = IfBlockCut
    /\ verdict[1].result.has_mismatch

\* the leading blanks of the first line of `text` that is not blank, or the
\* empty text when every line is blank
FirstIndent(text) ==
    LET lines == Split(text)
        full == {i \in 1..Len(lines) : \E k \in 1..Len(lines[i]) : lines[i][k] \notin Whitespace}
        line == lines[Min(full)]
        blanks == {k \in 0..Len(line) : \A q \in 1..k : line[q] \in Whitespace}
    IN  IF full = {} THEN <<>> ELSE SubSeq(line, 1, Max(blanks))

\* the verdict of _is_line_count_change_valid is in
CountReturned ==
    verdict # <<>> /\ verdict[1].fn = "_is_line_count_change_valid"

\* C17: with different line counts _is_line_count_change_valid accepts if and
\* only if (a) each bracket type has the same net count in original and
\* replacement, (b) there is no asymmetric removal and (c) the first
\* non-blank lines have the same leading indentation; with equal line counts
\* it accepts whatever the texts are.
C17_LineCountChange ==
    CountReturned =>
       LET v == verdict[1]
       IN  IF v.original_lines_count = v.replacement_lines_count
           THEN v.result.ok
           ELSE v.result.ok <=>
                  /\ \A b \in BracketPairs :
                        Net(given_original, b[1], b[2]) = Net(given_replacement, b[1], b[2])
                  /\ ~AsymmetricRemoval
                  /\ FirstIndent(given_original) = FirstIndent(given_replacement)

\* C17 witness: a change of line count accepted although the original starts
\* with a blank line, the first non-blank lines being indented alike
C17_Witness ==
    /\ CountReturned
    /\ verdict[1].original_lines_count # verdict[1].replacement_lines_count
    /\ given_original = Join(<<<<>>, Lix>>)
    /\ given_replacement = Lix
    /\ verdict[1].result.ok

\* C28: when every bracket type has the same net count in original and
\* replacement, that is when _validate_bracket_balance accepts the pair,
\* _detect_bracket_side_mismatch reports no mismatch on it; and
\* _is_line_count_change_valid never rejects for an asymmetric removal,
\* its test of the net counts coming first.
C28_SideCheckSubsumed ==
    /\ (SideReturned /\ _validate_bracket_balance(given_original, given_replacement).ok)
       => ~verdict[1].result.has_mismatch
    /\ CountReturned => verdict[1].result.msg[1] # "asymmetric"

\* C28 witness: 'if (x) { y(); }' replaced by a text without brackets; the
\* net counts agree, brackets of both sides are removed, no mismatch
C28_Witness ==
    /\ SideReturned
    /\ given_original = IfBlock /\ given_replacement = Lx
    /\ _validate_bracket_balance(given_original, given_replacement).ok
    /\ Count(given_replacement, "}") < Count(given_original, "}")
    /\ ~verdict[1].result.has_mismatch

----------------------------------------------------------------------------
(* Properties of parse_review_response, checked under SpecParse *)

\* the call has ended
Parsed == parsed # <<>>

\* the value the call returned has a summary and a list of issues
IsReview(value) ==
    /\ value.t = "dict"
    /\ K_summary \in DOMAIN value.v
    /\ K_issues \in DOMAIN value.v
    /\ value.v[K_issues].t = "list"

\* the issues of a returned review
IssuesOf(value) == value.v[K_issues].v

\* C18: parse_review_response never raises; for every text, also one that
\* is JSON whose 'issues' is a number, null or a boolean, or holds elements
\* that are not objects, it returns a mapping with a 'summary' and an
\* 'issues' list.
C18_NeverRaises ==
    Parsed => ~parsed[1].raised /\ IsReview(parsed[1].value)

\* the complete responses whose prefixes are among the texts
CompleteResponses == {ResponseWithSummary, ResponseWithoutSummary}

\* the index of the first `ch` of the text
FirstIndexOf(text, ch) == Find(text, <<ch>>, 0) + 1

\* the text is a complete response cut inside its issues array, at or
\* after the closing brace of the first issue and before the closing bracket
TruncatedAfterIssue(text) ==
    \E full \in CompleteResponses :
        \E n \in FirstIndexOf(full, "}")..(FirstIndexOf(full, "]") - 1) :
            text = SubSeq(full, 1, n)

\* the summary says that the response was truncated
MarkedTruncated(value) ==
    /\ value.v[K_summary].t = "str"
    /\ Contains(Lower(value.v[K_summary].v), <<"t", "r", "u", "n", "c", "a", "t", "e", "d">>)

\* C19: for a response cut inside its issues array after one complete
\* issue, with or without a 'summary' key and whatever its last character,
\* the result has a non-empty issue list and a summary that says the
\* response was truncated.
C19_SalvageKeepsIssues ==
    Parsed /\ TruncatedAfterIssue(given_response) =>
        /\ ~parsed[1].raised
        /\ IsReview(parsed[1].value)
        /\ IssuesOf(parsed[1].value) # <<>>
        /\ MarkedTruncated(parsed[1].value)

\* the three normalised fields of an issue hold values of the schema
Canonical(issue) ==
    /\ issue.t = "dict"
    /\ {K_severity, K_category, K_suggestion_type} \subseteq DOMAIN issue.v
    /\ issue.v[K_severity] \in {JStr(S_critical), JStr(S_high), JStr(S_medium), JStr(S_low)}
    /\ issue.v[K_category] \in {JStr(c) : c \in allowed_categories \cup {S_general}}
    /\ issue.v[K_suggestion_type] \in {JStr(S_code), JStr(S_conceptual)}

\* the rank of the severity of a canonical issue
CanonicalRank(issue) ==
    CASE issue.v[K_severity] = JStr(S_critical) -> 0
      [] issue.v[K_severity] = JStr(S_high) -> 1
      [] issue.v[K_severity] = JStr(S_medium) -> 2
      [] issue.v[K_severity] = JStr(S_low) -> 3

\* C20: every issue of every returned result, from the normal parse or from
\* the salvage, has severity, category and suggestion_type of the canonical
\* schema, and the issues are in the order of their severity rank.
C20_CanonicalEveryPath ==
    Parsed /\ ~parsed[1].raised =>
        /\ IsReview(parsed[1].value)
        /\ \A i \in 1..Len(IssuesOf(parsed[1].value)) :
               Canonical(IssuesOf(parsed[1].value)[i])
        /\ \A i, j \in 1..Len(IssuesOf(parsed[1].value)) :
               i < j => CanonicalRank(IssuesOf(parsed[1].value)[i])
                            <= CanonicalRank(IssuesOf(parsed[1].value)[j])

----------------------------------------------------------------------------
(* Properties of the normalisation rules, checked under SpecNormalize *)

\* C21: the severity, category and suggestion kind rules applied to values
\* they produced return the same values, whatever the raw value and in
\* whatever order the category set is iterated.
C21_NormalizeIdempotent ==
    norm_again # <<>> => norm_again = norm_once

\* a raw text none of the three rules leaves as it is was normalised twice
C21_Witness ==
    /\ norm_again # <<>>
    /\ raw_value = JStr(<<"P", "0", " ", "b", "l", "o", "c", "k", "e", "r">>)
    /\ norm_again[1] = [severity |-> S_critical, category |-> S_general,
                        suggestion_type |-> S_conceptual]

\* C30: the category a raw text is given does not depend on the order in
\* which the set of allowed categories is iterated, also for a text that
\* holds two or more of the categories.
C30_CategoryOrderFree ==
    norm_once # <<>> =>
        \A order \in CategoryOrders :
            normalize_category(raw_value, order) = norm_once[1].category

----------------------------------------------------------------------------
(* Properties of post_inline_comment, checked under SpecPost *)

\* the call has sent a request with this outcome
SomeSent(outcome) == \E k \in 1..Len(sent) : sent[k].outcome = outcome

\* the response of the first request that succeeded
FirstOkResponse ==
    IF sent[1].outcome = "ok" THEN "response 1" ELSE "response 2"

\* the call asked for a multi-line position and had both line codes
AskedLineRange ==
    /\ Truthy(post_args[1].start_line) /\ Truthy(post_args[1].end_line)
    /\ post_args[1].start_line # post_args[1].end_line
    /\ post_args[1].start_line_code # NoCode
    /\ post_args[1].end_line_code # NoCode

\* C26: a call of post_inline_comment sends at most two POST requests; the
\* second one is sent only after the first failed and only when the first
\* position carried a line_range (start_line # end_line, both line codes
\* given), and it is the single-line position at start_line without
\* line_range; the call returns the response of the first request that
\* succeeded and None when every request sent failed, and it raises nothing
\* once a request has been sent.
C26_BoundedFallback ==
    /\ Len(sent) <= 2
    /\ Len(sent) = 2 =>
          /\ sent[1].outcome # "ok"
          /\ sent[1].position.line_range # NoRange
          /\ AskedLineRange
          /\ sent[2].position = [new_line |-> post_args[1].start_line,
                                 line_range |-> NoRange]
    /\ (ppc = "ended" /\ sent # <<>>) =>
          /\ ~post_result[1].raised
          /\ post_result[1].value =
                IF SomeSent("ok") THEN FirstOkResponse ELSE "None"
    /\ (ppc = "ended" /\ post_result[1].raised) => sent = <<>>

\* a multi-line request was refused and the single-line retry was accepted
C26_Witness ==
    /\ ppc = "ended" /\ Len(sent) = 2
    /\ sent[1].outcome = "http_error" /\ sent[1].position.new_line = 4
    /\ sent[2].outcome = "ok" /\ sent[2].position.new_line = 2
    /\ post_result = <<[raised |-> FALSE, value |-> "response 2"]>>

----------------------------------------------------------------------------
(* Properties of main, checked under SpecMain *)

\* the number of issues taken whose pass ended in one of the steps
CountSteps(steps) ==
    Cardinality({i \in 1..Len(main_log) : main_log[i].step \in steps})

\* the passes that add one to failed_count
FailedSteps == {"no_file_or_line", "bad_range", "post_none", "post_raised", "raised"}

\* the issues are taken once each in list order with at most one call of
\* post_inline_comment, the two counters count the passes, only a raising
\* handler ends the loop early, and a run that returns 200 has taken every
\* issue, so that posted + failed = issues_found
LoopAccounting ==
    /\ status_code \in {0, 200, 500}
    /\ Len(main_log) <= Len(main_issues)
    /\ \A i \in 1..Len(main_log) :
          /\ main_log[i].issue = main_issues[i]
          /\ Len(main_log[i].calls) <= 1
          /\ main_log[i].step = "handler_raised" => (i = Len(main_log) /\ status_code = 500)
    /\ posted_count = CountSteps({"posted"})
    /\ failed_count = CountSteps(FailedSteps)
    /\ status_code = 500 => main_log # <<>> /\ main_log[Len(main_log)].step = "handler_raised"
    /\ status_code = 200 =>
          /\ Len(main_log) = Len(main_issues)
          /\ posted_count + failed_count = Len(main_issues)

\* pass i counted the issue as failed and called nothing
FailedWithoutPost(i) ==
    main_log[i].calls = <<>> /\ main_log[i].step \in FailedSteps

\* the issue as given has no file, no start_line, a start_line <= 0 or an
\* end_line below its start_line
GivenUnusable(issue) ==
    IF ~JTruthy(issue.file) \/ issue.start_line.t # "num" THEN TRUE
    ELSE IF issue.start_line.v <= 0 THEN TRUE
    ELSE IF issue.end_line.t # "num" THEN FALSE
    ELSE issue.end_line.v < issue.start_line.v

\* the same of the lines main works with: start_line, or `line` when
\* start_line is falsy; end_line, or that start line when end_line is falsy
EffectivelyUnusable(issue) ==
    IF ~JTruthy(issue.file) \/ ~JTruthy(StartLineOf(issue)) THEN TRUE
    ELSE IF StartLineOf(issue).t # "num" THEN FALSE
    ELSE IF StartLineOf(issue).v <= 0 THEN TRUE
    ELSE IF EndLineOf(issue).t # "num" THEN FALSE
    ELSE EndLineOf(issue).v < StartLineOf(issue).v

\* C25 as stated: in every run that returns 200 each issue is taken once in
\* list order with at most one post call and posted + failed = issues_found;
\* an issue without file or start_line, with start_line <= 0 or with
\* end_line < start_line is counted as failed without any post; an exception
\* while posting does not stop the loop.
C25_Accounting ==
    /\ LoopAccounting
    /\ \A i \in 1..Len(main_log) :
          GivenUnusable(main_log[i].issue) => FailedWithoutPost(i)

\* C25 amended: the same, the unusable issues being those whose file is
\* missing or whose lines after main's two fallbacks (start_line or `line`,
\* end_line or the start line) are missing, have a start <= 0 or an end
\* below the start.
C25_AccountingEffective ==
    /\ LoopAccounting
    /\ \A i \in 1..Len(main_log) :
          EffectivelyUnusable(main_log[i].issue) => FailedWithoutPost(i)

\* a run returned 200 after post_inline_comment raised on the first issue
\* and the second, with end_line < start_line, was skipped
C25_Witness ==
    /\ status_code = 200 /\ Len(main_issues) = 2
    /\ main_log[1].step = "post_raised" /\ Len(main_log[1].calls) = 1
    /\ main_log[2].step = "bad_range" /\ main_log[2].calls = <<>>
    /\ main_log[2].issue.end_line = JNum(1)
    /\ posted_count = 0 /\ failed_count = 2

----------------------------------------------------------------------------
(* Properties of resolve_model, checked under SpecResolve *)

\* the requested name, lowered; <<>> when none is given
RequestedLower == IF given_model = <<>> THEN <<>> ELSE Lower(given_model[1])

\* the requested name equals, case-insensitively, the model's name or one
\* of its registered aliases
Names(model, requested_lower) ==
    \/ requested_lower = Lower(model.name)
    \/ \E a \in 1..Len(model.aliases) : requested_lower = Lower(model.aliases[a])

\* C27: for every provider and every model M of it, a requested name that
\* equals, case-insensitively, M's name or one of M's registered aliases
\* resolves to M; with no requested name the provider's default model is
\* returned; a name that matches no name and no alias raises ValueError.
C27_AliasesHonoured ==
    (resolved # <<>> /\ Supported(given_provider[1])) =>
        LET models == get_models_for_provider(given_provider[1])
        IN  /\ \A k \in 1..Len(models) :
                  (RequestedLower # <<>> /\ Names(models[k], RequestedLower))
                  => resolved[1] = Resolved(models[k].name)
            /\ RequestedLower = <<>> =>
                  resolved[1] = Resolved(get_default_model(given_provider[1]).name)
            /\ (RequestedLower # <<>>
                /\ \A k \in 1..Len(models) : ~Names(models[k], RequestedLower))
               => resolved[1] = ValueError

============================================================================
